---- MODULE Spec2Model ----
(***************************************************************************)
(* SecureLogTI: log parser, threat scoring and IP reputation fusion.       *)
(*                                                                         *)
(* Conventions of the model                                                *)
(*  - an IPv4 address is the tuple of its four octets;                     *)
(*  - time is counted in hours since the process started;                  *)
(*  - scores that the code computes in floating point (reputation boost,   *)
(*    fused score, confidence) are kept in tenths of a point, which is     *)
(*    exact for integer abuse scores and report counts;                    *)
(*  - Null is the value of JavaScript's null / undefined.                  *)
(***************************************************************************)
EXTENDS Integers, Sequences, FiniteSets, TLC

VARIABLES
    reputationCache,    \* ip-reputation-api.ts: IpReputationCache.cache
    IP_REPUTATION_DB,   \* ip-reputation-check.ts: local reputation database
    apiKey,             \* whether ABUSEIPDB_API_KEY is configured
    now,                \* Date.now(), hours since process start
    calls,              \* completed calls, oldest first (observation)
    fnIn,               \* argument of the pure function under analysis
    fnOut,              \* its result, Null before the call
    users,              \* data-store.ts: ids of the registered users
    logsByUser,         \* data-store.ts: Map userId -> LogEntry[]
    threatsByUser,      \* data-store.ts: Map userId -> ThreatIntelligence[]
    alertsByUser,       \* data-store.ts: Map userId -> SecurityAlert[]
    ops,                \* store operations and requests completed so far
    lastIndex           \* log-parser.ts: IP_PATTERN.lastIndex

repVars == <<reputationCache, IP_REPUTATION_DB, apiKey, now, calls>>
fnVars == <<fnIn, fnOut>>
storeVars == <<users, logsByUser, threatsByUser, alertsByUser, ops>>
vars == <<reputationCache, IP_REPUTATION_DB, apiKey, now, calls, fnIn, fnOut,
          users, logsByUser, threatsByUser, alertsByUser, ops, lastIndex>>

Null == [null |-> TRUE]

\* User ids the store is asked about: the demo account of initializeStore
\* and one registered later.
Owners == {"demo-user-1", "user-2"}

\* The maps of data-store.ts before the module is loaded.
StoreNotLoaded ==
    /\ users = {}
    /\ logsByUser = [o \in Owners |-> Null]
    /\ threatsByUser = [o \in Owners |-> Null]
    /\ alertsByUser = [o \in Owners |-> Null]
    /\ ops = 0

\* Op applied to the value of an expression, which is computed once.
Bind(value, Op(_)) == CHOOSE result \in { Op(v) : v \in {value} } : TRUE

Min(a, b) == IF a < b THEN a ELSE b
Max(a, b) == IF a > b THEN a ELSE b

(***************************************************************************)
(* Bounds of the model                                                     *)
(***************************************************************************)
MaxCalls == 2       \* lookups observed in one behaviour
MaxTicks == 3       \* clock advances of TickHours each
MaxCopies == 5      \* copies of one sample finding in a findings list
MaxTokens == 3      \* tokens of a log line
MaxEdge == 2        \* lines of a log text before its run of unparseable lines
MaxPad == 11        \* length of the run of unparseable lines in a log text
MaxBatch == 2       \* addresses passed to one batch lookup
MaxEvents == 3      \* events of a list handed to a detector or to the aggregation
MaxOps == 2         \* store operations and requests in one behaviour
MaxRecs == 2        \* entries of a recommendation list
MaxSlice == 5       \* events of a slice handed to a detection method
MaxWords == 2       \* words of a message handed to determineSeverity

(***************************************************************************)
(* Reputation client: constants                                            *)
(***************************************************************************)
CACHE_TTL == 24         \* hours
TickHours == CACHE_TTL \div 2   \* the clock advances in half-TTL steps
Epoch == -500000        \* new Date(0), hours before process start
Jan2020 == -52560       \* new Date("2020-01-01")

HIGH_RISK_COUNTRIES == {"KP", "IR", "SY"}

KNOWN_MALICIOUS_RANGES ==
    << [range |-> <<192, 168, 1, 0>>, mask |-> 24, category |-> "internal_network", riskLevel |-> "low"],
       [range |-> <<10, 0, 0, 0>>, mask |-> 8, category |-> "private_network", riskLevel |-> "low"],
       [range |-> <<172, 16, 0, 0>>, mask |-> 12, category |-> "private_network", riskLevel |-> "low"],
       [range |-> <<203, 0, 113, 0>>, mask |-> 24, category |-> "botnet_c2", riskLevel |-> "critical"],
       [range |-> <<198, 51, 100, 0>>, mask |-> 24, category |-> "malware_distribution", riskLevel |-> "critical"],
       [range |-> <<192, 0, 2, 0>>, mask |-> 24, category |-> "phishing", riskLevel |-> "high"] >>

\* Addresses looked up in the model: one inside a known malicious range, one
\* that neither the database nor the ranges know.
Addrs == { <<203, 0, 113, 7>>, <<45, 1, 1, 1>> }

SeedRecords ==
    { [ipAddress |-> <<8, 8, 8, 8>>, abuseScore |-> 0, reportCount |-> 0, lastReported |-> Jan2020,
       isBlacklisted |-> FALSE, country |-> "US", isp |-> "Google", reputationTrend |-> "stable",
       threatCategories |-> <<>>, riskLevel |-> "low"],
      [ipAddress |-> <<1, 1, 1, 1>>, abuseScore |-> 0, reportCount |-> 0, lastReported |-> Jan2020,
       isBlacklisted |-> FALSE, country |-> "US", isp |-> "Cloudflare", reputationTrend |-> "stable",
       threatCategories |-> <<>>, riskLevel |-> "low"],
      [ipAddress |-> <<203, 0, 113, 50>>, abuseScore |-> 45, reportCount |-> 12, lastReported |-> -168,
       isBlacklisted |-> FALSE, country |-> "CN", isp |-> "China ISP", reputationTrend |-> "declining",
       threatCategories |-> <<"spam", "malware">>, riskLevel |-> "medium"],
      [ipAddress |-> <<198, 51, 100, 100>>, abuseScore |-> 78, reportCount |-> 156, lastReported |-> -48,
       isBlacklisted |-> TRUE, country |-> "RU", isp |-> "Russian ISP", reputationTrend |-> "declining",
       threatCategories |-> <<"botnet", "malware", "ddos">>, riskLevel |-> "high"],
      [ipAddress |-> <<192, 0, 2, 100>>, abuseScore |-> 95, reportCount |-> 523, lastReported |-> -24,
       isBlacklisted |-> TRUE, country |-> "KP", isp |-> "North Korea Network", reputationTrend |-> "declining",
       threatCategories |-> <<"botnet", "malware", "ransomware", "ddos">>, riskLevel |-> "critical"],
      [ipAddress |-> <<192, 168, 1, 100>>, abuseScore |-> 62, reportCount |-> 34, lastReported |-> -72,
       isBlacklisted |-> FALSE, country |-> "US", isp |-> "Home ISP", reputationTrend |-> "stable",
       threatCategories |-> <<"brute_force", "malware">>, riskLevel |-> "high"],
      [ipAddress |-> <<10, 0, 0, 50>>, abuseScore |-> 38, reportCount |-> 8, lastReported |-> -336,
       isBlacklisted |-> FALSE, country |-> "US", isp |-> "Corporate Network", reputationTrend |-> "improving",
       threatCategories |-> <<"suspicious_activity">>, riskLevel |-> "medium"] }

SeedIps == { r.ipAddress : r \in SeedRecords }
\* Addresses of the sample events of generateSampleLogs, the sentinel
\* 0.0.0.0 and the address of the parser's lines.
StoreIps ==
    { <<192, 168, 1, 100>>, <<203, 0, 113, 45>>, <<45, 33, 32, 156>>, <<198, 51, 100, 50>>,
      <<172, 16, 0, 100>>, <<10, 0, 0, 50>>, <<0, 0, 0, 0>>, <<10, 0, 0, 5>> }

AllIps == Addrs \cup SeedIps \cup StoreIps

InitialReputationDb ==
    [ip \in AllIps |->
        IF ip \in SeedIps THEN CHOOSE r \in SeedRecords : r.ipAddress = ip ELSE Null]

(***************************************************************************)
(* Reputation boost (tenths of a point)                                    *)
(***************************************************************************)

\* The same function without the final cap.
calculateReputationBoost_Uncapped(reputation, nowH) ==
    LET age == nowH - reputation.lastReported
        abuse == 4 * reputation.abuseScore
        recent == IF age < 7 * 24 THEN 100
                  ELSE IF age < 30 * 24 THEN 50
                  ELSE IF age < 90 * 24 THEN 20 ELSE 0
        listed == IF reputation.isBlacklisted THEN 200 ELSE 0
        volume == Min(reputation.reportCount, 100)
        geo == IF reputation.country \in HIGH_RISK_COUNTRIES THEN 100 ELSE 0
        trend == IF reputation.reputationTrend = "declining" THEN 80
                 ELSE IF reputation.reputationTrend = "improving" THEN -50 ELSE 0
    IN  abuse + recent + listed + volume + geo + trend

\* calculateReputationBoost: abuseScore/100*40, recency 10/5/2, +20 listed,
\* min(reportCount/100,1)*10, +10 high-risk country, +8/-5 trend; capped.
calculateReputationBoost(reputation, nowH) ==
    LET age == nowH - reputation.lastReported
        abuse == 4 * reputation.abuseScore
        recent == IF age < 7 * 24 THEN 100
                  ELSE IF age < 30 * 24 THEN 50
                  ELSE IF age < 90 * 24 THEN 20 ELSE 0
        listed == IF reputation.isBlacklisted THEN 200 ELSE 0
        volume == Min(reputation.reportCount, 100)
        geo == IF reputation.country \in HIGH_RISK_COUNTRIES THEN 100 ELSE 0
        trend == IF reputation.reputationTrend = "declining" THEN 80
                 ELSE IF reputation.reputationTrend = "improving" THEN -50 ELSE 0
        boost == abuse + recent + listed + volume + geo + trend
    IN  Max(-200, Min(500, boost))

\* The copy of calculateReputationBoost in the integration module, applied to
\* records that came from the service.
calculateReputationBoostApi(reputation, nowH) ==
    LET age == nowH - reputation.lastReported
        abuse == 4 * reputation.abuseScore
        recent == IF age < 7 * 24 THEN 100
                  ELSE IF age < 30 * 24 THEN 50
                  ELSE IF age < 90 * 24 THEN 20 ELSE 0
        listed == IF reputation.isBlacklisted THEN 200 ELSE 0
        volume == Min(reputation.reportCount, 100)
        geo == IF reputation.country \in {"KP", "IR", "SY"} THEN 100 ELSE 0
        trend == IF reputation.reputationTrend = "declining" THEN 80
                 ELSE IF reputation.reputationTrend = "improving" THEN -50 ELSE 0
        boost == abuse + recent + listed + volume + geo + trend
    IN  Max(-200, Min(500, boost))

(***************************************************************************)
(* Local heuristic generator (ip-reputation-check.ts)                      *)
(***************************************************************************)
getGeoLocation(ipAddress) ==
    IF ipAddress[1] = 192 THEN [country |-> "US", isp |-> "US ISP"]
    ELSE IF ipAddress[1] = 203 THEN [country |-> "CN", isp |-> "China ISP"]
    ELSE IF ipAddress[1] = 198 THEN [country |-> "RU", isp |-> "Russian ISP"]
    ELSE IF ipAddress[1] = 10 THEN [country |-> "US", isp |-> "Private Network"]
    ELSE [country |-> "Unknown", isp |-> "Unknown"]

\* Compares the first ceil(maskBits / 8) octets.
isInCidrRange(ip, range) ==
    LET bytesToCheck == (range.mask + 7) \div 8
    IN  \A i \in 1..bytesToCheck : ip[i] = range.range[i]

\* Math.random() draws of getIpReputation: the report count and the age of
\* the last report (up to 30 days).
RandomDraws == { [reportCount |-> 0, ageHours |-> 0], [reportCount |-> 4, ageHours |-> 719] }

\* getIpReputation: database hit, else first matching range, else generated
\* from the geolocation; a new record is stored in the database.
getIpReputation(ipAddress, db, nowH, rnd) ==
    IF db[ipAddress] # Null THEN [reputation |-> db[ipAddress], db |-> db]
    ELSE
      LET hits == { i \in 1..Len(KNOWN_MALICIOUS_RANGES) :
                        isInCidrRange(ipAddress, KNOWN_MALICIOUS_RANGES[i]) }
      IN
      IF hits # {} THEN
        LET range == KNOWN_MALICIOUS_RANGES[CHOOSE i \in hits : \A j \in hits : i <= j]
            reputation ==
              [ipAddress |-> ipAddress,
               abuseScore |-> IF range.riskLevel = "critical" THEN 85
                              ELSE IF range.riskLevel = "high" THEN 65 ELSE 20,
               reportCount |-> IF range.riskLevel = "critical" THEN 200 ELSE 10,
               lastReported |-> nowH,
               isBlacklisted |-> (range.riskLevel = "critical"),
               country |-> "Unknown", isp |-> "Unknown ISP",
               reputationTrend |-> "stable",
               threatCategories |-> <<range.category>>,
               riskLevel |-> range.riskLevel]
        IN  [reputation |-> reputation, db |-> [db EXCEPT ![ipAddress] = reputation]]
      ELSE
        LET geo == getGeoLocation(ipAddress)
            baseScore == IF geo.country \in HIGH_RISK_COUNTRIES THEN 30 ELSE 5
            reputation ==
              [ipAddress |-> ipAddress,
               abuseScore |-> baseScore,
               reportCount |-> rnd.reportCount,
               lastReported |-> nowH - rnd.ageHours,
               isBlacklisted |-> (baseScore > 70),
               country |-> geo.country, isp |-> geo.isp,
               reputationTrend |-> IF baseScore > 50 THEN "declining" ELSE "stable",
               threatCategories |-> IF baseScore > 40 THEN <<"suspicious">> ELSE <<>>,
               riskLevel |-> IF baseScore > 70 THEN "critical" ELSE IF baseScore > 50 THEN "high"
                             ELSE IF baseScore > 25 THEN "medium" ELSE "low"]
        IN  [reputation |-> reputation, db |-> [db EXCEPT ![ipAddress] = reputation]]

\* analyzeIpReputation: record, boost and confidence 50 + min(reports*0.5, 30).
analyzeIpReputation(ipAddress, db, nowH, rnd) ==
    LET got == getIpReputation(ipAddress, db, nowH, rnd)
    IN  [analysis |-> [ipAddress |-> ipAddress,
                       reputation |-> got.reputation,
                       confidenceScore |-> Min(500 + Min(5 * got.reputation.reportCount, 300), 1000),
                       reputationBoost |-> calculateReputationBoost(got.reputation, nowH)],
         db |-> got.db]

(***************************************************************************)
(* AbuseIPDB client (ip-reputation-api.ts)                                 *)
(***************************************************************************)

\* Bodies of a 2xx answer of the service.
AbuseResponses ==
    { [abuseConfidenceScore |-> 10, countryCode |-> "US", isp |-> "ExampleNet", totalReports |-> 3,
       lastReportedAt |-> <<>>, isWhitelisted |-> TRUE, categories |-> <<>>],
      [abuseConfidenceScore |-> 90, countryCode |-> "KP", isp |-> "", totalReports |-> 150,
       lastReportedAt |-> <<-24>>, isWhitelisted |-> FALSE, categories |-> <<4, 2, 99>>] }

\* What one request to the service can end in.
ServiceOutcomes ==
    { [kind |-> "ok", body |-> b] : b \in AbuseResponses }
    \cup { [kind |-> k, body |-> Null] :
             k \in {"http401", "http429", "http500", "networkError", "badJson", "missingData"} }

\* Outcomes that raise an exception inside the try block: fetch rejects,
\* response.json() rejects, convertAbuseIPDBResponse reads a field of undefined.
RaisesInTry(outcome) == outcome.kind \in {"networkError", "badJson", "missingData"}

\* categoryMap, keys 2..20.
categoryMap ==
    << "ddos", "spam", "malware", "phishing", "botnets", "exploit", "brute_force",
       "bad_reputation", "open_proxy", "web_spam", "email_spam", "fraud", "scanner",
       "denial_abuse", "ftp_abuse", "privilege_escalation", "sql_injection", "ssh_abuse",
       "vulnerability" >>

\* categoryMap[cat] || `category_${cat}`
categoryName(cat) ==
    IF cat \in 2..20 THEN categoryMap[cat - 1] ELSE "category_" \o ToString(cat)

mapAbuseCategoriestoThreatCategories(categories, abuseScore) ==
    LET mapped == [i \in 1..Len(categories) |-> categoryName(categories[i])]
    IN  IF Len(mapped) = 0 /\ abuseScore > 50 THEN <<"suspicious">> ELSE mapped

\* The service answers for the address it was asked about (data.ipAddress).
convertAbuseIPDBResponse(ipAddress, data) ==
    [ipAddress |-> ipAddress,
     abuseScore |-> data.abuseConfidenceScore,
     reportCount |-> data.totalReports,
     lastReported |-> IF data.lastReportedAt # <<>> THEN data.lastReportedAt[1] ELSE Epoch,
     isBlacklisted |-> (data.abuseConfidenceScore >= 75 \/ data.isWhitelisted = FALSE),
     country |-> IF data.countryCode # "" THEN data.countryCode ELSE "Unknown",
     isp |-> IF data.isp # "" THEN data.isp ELSE "Unknown ISP",
     reputationTrend |-> IF data.totalReports > 100 THEN "declining"
                         ELSE IF data.totalReports > 50 THEN "stable"
                         ELSE IF data.totalReports > 0 /\ data.totalReports < 5 THEN "improving"
                         ELSE "stable",
     threatCategories |-> IF Len(data.categories) > 0
                          THEN mapAbuseCategoriestoThreatCategories(data.categories, data.abuseConfidenceScore)
                          ELSE <<>>,
     riskLevel |-> IF data.abuseConfidenceScore >= 75 THEN "critical"
                   ELSE IF data.abuseConfidenceScore >= 50 THEN "high"
                   ELSE IF data.abuseConfidenceScore >= 25 THEN "medium" ELSE "low"]

\* A cache whose reads restart the lifetime of the entry.
CacheGet_Touch(cache, ip, nowH) ==
    LET cached == cache[ip]
    IN  IF cached = Null THEN [data |-> Null, cache |-> cache]
        ELSE IF nowH - cached.timestamp > CACHE_TTL
             THEN [data |-> Null, cache |-> [cache EXCEPT ![ip] = Null]]
        ELSE [data |-> cached.data, cache |-> [cache EXCEPT ![ip].timestamp = nowH]]

\* IpReputationCache.get: an entry older than the TTL is deleted on the read.
CacheGet(cache, ip, nowH) ==
    LET cached == cache[ip]
    IN  IF cached = Null THEN [data |-> Null, cache |-> cache]
        ELSE IF nowH - cached.timestamp > CACHE_TTL
             THEN [data |-> Null, cache |-> [cache EXCEPT ![ip] = Null]]
        ELSE [data |-> cached.data, cache |-> cache]

\* IpReputationCache.set
CacheSet(cache, ip, data, nowH) ==
    [cache EXCEPT ![ip] = [data |-> data, timestamp |-> nowH]]

\* The same client without the try/catch around the request.
checkIpReputationFromAPI_NoCatch(ipAddress, cache, key, nowH, outcome) ==
    LET got == CacheGet(cache, ipAddress, nowH)
    IN  IF got.data # Null
        THEN [data |-> got.data, cache |-> got.cache, requests |-> <<>>, threw |-> FALSE]
        ELSE IF ~key
        THEN [data |-> Null, cache |-> got.cache, requests |-> <<>>, threw |-> FALSE]
        ELSE IF outcome.kind = "ok"
        THEN LET reputationData == convertAbuseIPDBResponse(ipAddress, outcome.body)
             IN  [data |-> reputationData,
                  cache |-> CacheSet(got.cache, ipAddress, reputationData, nowH),
                  requests |-> <<outcome.kind>>, threw |-> FALSE]
        ELSE [data |-> Null, cache |-> got.cache, requests |-> <<outcome.kind>>,
              threw |-> RaisesInTry(outcome)]

\* checkIpReputationFromAPI: cache, then the key, then one request; every
\* failure (non-2xx, errors field, exception) ends in null.
\*   data: the record or Null; requests: the requests sent, by outcome;
\*   threw: whether an exception leaves the function.
checkIpReputationFromAPI(ipAddress, cache, key, nowH, outcome) ==
    LET got == CacheGet(cache, ipAddress, nowH)
    IN  IF got.data # Null
        THEN [data |-> got.data, cache |-> got.cache, requests |-> <<>>, threw |-> FALSE]
        ELSE IF ~key
        THEN [data |-> Null, cache |-> got.cache, requests |-> <<>>, threw |-> FALSE]
        ELSE IF outcome.kind = "ok"
        THEN LET reputationData == convertAbuseIPDBResponse(ipAddress, outcome.body)
             IN  [data |-> reputationData,
                  cache |-> CacheSet(got.cache, ipAddress, reputationData, nowH),
                  requests |-> <<outcome.kind>>, threw |-> FALSE]
        ELSE [data |-> Null, cache |-> got.cache, requests |-> <<outcome.kind>>,
              threw |-> FALSE]

\* getIpReputationWithFallback: the API record wrapped as an analysis, else the
\* local analysis.
getIpReputationWithFallback(ipAddress, cache, db, key, nowH, outcome, rnd) ==
    LET api == checkIpReputationFromAPI(ipAddress, cache, key, nowH, outcome)
    IN  IF api.threw
        THEN [analysis |-> Null, cache |-> api.cache, db |-> db,
              requests |-> api.requests, fellBack |-> FALSE, threw |-> TRUE]
        ELSE IF api.data # Null
        THEN [analysis |-> [ipAddress |-> ipAddress,
                            reputation |-> api.data,
                            confidenceScore |-> Min(1000, api.data.reportCount + 500),
                            reputationBoost |-> calculateReputationBoostApi(api.data, nowH)],
              cache |-> api.cache, db |-> db,
              requests |-> api.requests, fellBack |-> FALSE, threw |-> FALSE]
        ELSE LET local == analyzeIpReputation(ipAddress, db, nowH, rnd)
             IN  [analysis |-> local.analysis, cache |-> api.cache, db |-> local.db,
                  requests |-> api.requests, fellBack |-> TRUE, threw |-> FALSE]

(***************************************************************************)
(* Reputation client as a state machine                                    *)
(***************************************************************************)
InitRep ==
    /\ reputationCache = [ip \in Addrs |-> Null]
    /\ IP_REPUTATION_DB = InitialReputationDb
    /\ apiKey \in BOOLEAN
    /\ now = 0
    /\ calls = <<>>
    /\ fnIn = Null /\ fnOut = Null
    /\ StoreNotLoaded
    /\ lastIndex = 0

\* One call of lookup(address).
Lookup(ipAddress, outcome, rnd) ==
    /\ Len(calls) < MaxCalls
    /\ LET r == getIpReputationWithFallback(ipAddress, reputationCache, IP_REPUTATION_DB,
                                            apiKey, now, outcome, rnd)
       IN  /\ reputationCache' = r.cache
           /\ IP_REPUTATION_DB' = r.db
           /\ calls' = Append(calls, [ipAddress |-> ipAddress, at |-> now,
                                      requests |-> r.requests, fellBack |-> r.fellBack,
                                      threw |-> r.threw, analysis |-> r.analysis])
    /\ UNCHANGED <<apiKey, now, fnIn, fnOut, storeVars, lastIndex>>

\* Time passes.
Tick ==
    /\ now < MaxTicks * TickHours
    /\ now' = now + TickHours
    /\ UNCHANGED <<reputationCache, IP_REPUTATION_DB, apiKey, calls, fnIn, fnOut, storeVars, lastIndex>>

NextRep ==
    \/ \E ip \in Addrs, outcome \in ServiceOutcomes, rnd \in RandomDraws : Lookup(ip, outcome, rnd)
    \/ Tick

SpecRep == InitRep /\ [][NextRep]_vars

(***************************************************************************)
(* Batch lookup (checkMultipleIpsFromAPI, getMultipleIpsReputation)        *)
(***************************************************************************)

RECURSIVE Unique(_)
\* [...new Set(ips)]: first occurrences, in order.
Unique(ips) ==
    IF ips = <<>> THEN <<>>
    ELSE LET front == Unique(SubSeq(ips, 1, Len(ips) - 1))
             last == ips[Len(ips)]
         IN  IF \E i \in 1..Len(front) : front[i] = last THEN front ELSE Append(front, last)

\* The requests of one call, tagged with the address asked about.
Tagged(ipAddress, kinds) == [i \in 1..Len(kinds) |-> [ipAddress |-> ipAddress, kind |-> kinds[i]]]

RECURSIVE checkMultipleIpsFromAPI(_, _, _, _, _, _)
\* checkMultipleIpsFromAPI over the first n of uniqueIps; outcomes[ip] is what
\* the service does with the request for ip.  The pause between two requests
\* is a second, nothing on the clock of the cache.
checkMultipleIpsFromAPI(uniqueIps, n, cache, key, nowH, outcomes) ==
    IF n = 0 THEN [results |-> [ip \in Addrs |-> Null], cache |-> cache, requests |-> <<>>]
    ELSE Bind(checkMultipleIpsFromAPI(uniqueIps, n - 1, cache, key, nowH, outcomes),
              LAMBDA before :
                Bind(checkIpReputationFromAPI(uniqueIps[n], before.cache, key, nowH,
                                              outcomes[uniqueIps[n]]),
                     LAMBDA api :
                        [results |-> [before.results EXCEPT ![uniqueIps[n]] = api.data],
                         cache |-> api.cache,
                         requests |-> before.requests \o Tagged(uniqueIps[n], api.requests)]))

RECURSIVE processEachIp(_, _, _, _, _, _, _, _, _)
\* The loop of getMultipleIpsReputation over the first n of uniqueIps: the API
\* record wrapped as an analysis, else getIpReputationWithFallback(ip).
processEachIp(uniqueIps, n, apiResults, cache, db, key, nowH, outcomes, rnd) ==
    IF n = 0 THEN [results |-> [ip \in Addrs |-> Null], cache |-> cache, db |-> db,
                   requests |-> <<>>]
    ELSE Bind(processEachIp(uniqueIps, n - 1, apiResults, cache, db, key, nowH, outcomes, rnd),
              LAMBDA before :
                LET ip == uniqueIps[n]
                IN  IF apiResults[ip] # Null
                    THEN [before EXCEPT !.results[ip] =
                            [ipAddress |-> ip,
                             reputation |-> apiResults[ip],
                             confidenceScore |-> Min(1000, apiResults[ip].reportCount + 500),
                             reputationBoost |->
                                calculateReputationBoostApi(apiResults[ip], nowH)]]
                    ELSE Bind(getIpReputationWithFallback(ip, before.cache, before.db, key,
                                                          nowH, outcomes[ip], rnd),
                              LAMBDA r :
                                [results |-> [before.results EXCEPT ![ip] = r.analysis],
                                 cache |-> r.cache, db |-> r.db,
                                 requests |-> before.requests \o Tagged(ip, r.requests)]))

\* getMultipleIpsReputation: the batch check, then the loop.  first and second
\* give the service's answer to the first and to a further request per address.
getMultipleIpsReputation(ips, cache, db, key, nowH, first, second, rnd) ==
    LET uniqueIps == Unique(ips)
    IN  Bind(checkMultipleIpsFromAPI(uniqueIps, Len(uniqueIps), cache, key, nowH, first),
             LAMBDA batch :
                Bind(processEachIp(uniqueIps, Len(uniqueIps), batch.results, batch.cache, db,
                                   key, nowH, second, rnd),
                     LAMBDA each :
                        [results |-> each.results, cache |-> each.cache, db |-> each.db,
                         requests |-> batch.requests \o each.requests]))

\* What the service does in the batch runs.
BatchOutcomes ==
    { o \in ServiceOutcomes : o.kind \in {"http401", "http429"} }
    \cup { [kind |-> "ok", body |-> CHOOSE b \in AbuseResponses : b.totalReports > 100] }

\* The draw of Math.random in the batch runs.
BatchDraw == CHOOSE rnd \in RandomDraws : rnd.reportCount > 0

BatchInputs == UNION { [1..n -> Addrs] : n \in 1..MaxBatch }

\* One call of the batch lookup.
BatchLookup(ips, first, second, rnd) ==
    /\ Len(calls) < MaxCalls
    /\ \E r \in { getMultipleIpsReputation(ips, reputationCache, IP_REPUTATION_DB, apiKey,
                                             now, first, second, rnd) } :
           /\ reputationCache' = r.cache
           /\ IP_REPUTATION_DB' = r.db
           /\ calls' = Append(calls, [batch |-> ips, at |-> now, requests |-> r.requests,
                                      results |-> r.results])
    /\ UNCHANGED <<apiKey, now, fnIn, fnOut, storeVars, lastIndex>>

\* One call of the single lookup, its requests tagged as those of a batch are.
SingleLookup(ipAddress, outcome, rnd) ==
    /\ Len(calls) < MaxCalls
    /\ \E r \in { getIpReputationWithFallback(ipAddress, reputationCache, IP_REPUTATION_DB,
                                                apiKey, now, outcome, rnd) } :
           /\ reputationCache' = r.cache
           /\ IP_REPUTATION_DB' = r.db
           /\ calls' = Append(calls, [batch |-> <<ipAddress>>, at |-> now,
                                      requests |-> Tagged(ipAddress, r.requests),
                                      results |-> [ip \in Addrs |->
                                                    IF ip = ipAddress THEN r.analysis ELSE Null]])
    /\ UNCHANGED <<apiKey, now, fnIn, fnOut, storeVars, lastIndex>>

NextBatch ==
    \/ \E ips \in BatchInputs, first \in [Addrs -> BatchOutcomes],
          second \in [Addrs -> BatchOutcomes] :
            BatchLookup(ips, first, second, BatchDraw)
    \/ \E ip \in Addrs, outcome \in BatchOutcomes :
            SingleLookup(ip, outcome, BatchDraw)
    \/ Tick

SpecBatch == InitRep /\ [][NextBatch]_vars

(***************************************************************************)
(* Composite scorer (advanced-threat-detection.ts)                         *)
(***************************************************************************)

\* The weights table of calculateCompositeScore.
Weights ==
    << [method |-> "SQL Injection Signature Detection", weight |-> 40],
       [method |-> "Web Shell Upload Detection", weight |-> 35],
       [method |-> "Malware Indicators Detection", weight |-> 38],
       [method |-> "SSH Brute Force Pattern Detection", weight |-> 25],
       [method |-> "DDoS Attack Pattern Detection", weight |-> 30],
       [method |-> "Critical Severity Escalation Detection", weight |-> 35],
       [method |-> "Multi-Vector Attack Detection", weight |-> 40],
       [method |-> "Distributed Attack Correlation Detection", weight |-> 35],
       [method |-> "Rapid-Fire Event Detection", weight |-> 20],
       [method |-> "Concentrated Attack Window Detection", weight |-> 15],
       [method |-> "Request Rate Anomaly Detection", weight |-> 18],
       [method |-> "Error Rate Anomaly Detection", weight |-> 20],
       [method |-> "Failed Authentication Spike Detection", weight |-> 25],
       [method |-> "Privilege Escalation Attempt Detection", weight |-> 28] >>

\* weights[reason.method] || 20
WeightOf(method) ==
    LET known == { i \in 1..Len(Weights) : Weights[i].method = method }
    IN  IF known = {} THEN 20 ELSE Weights[CHOOSE i \in known : TRUE].weight

RECURSIVE SumWeights(_)
SumWeights(n) == IF n = 0 THEN 0 ELSE Weights[n].weight + SumWeights(n - 1)

\* Object.values(weights).reduce((a, b) => a + b, 0)
maxPossibleScore == SumWeights(Len(Weights))

\* The reduce over the reasons, in hundredths: sum of confidence * weight.
RECURSIVE WeightedScore100(_)
WeightedScore100(rs) ==
    IF rs = <<>> THEN 0
    ELSE WeightedScore100(SubSeq(rs, 1, Len(rs) - 1))
            + rs[Len(rs)].confidence * WeightOf(rs[Len(rs)].method)

\* Math.round of the non-negative rational n / d.
RoundDiv(n, d) == (2 * n + d) \div (2 * d)

\* A scorer that averages the contributions instead of adding them.
calculateCompositeScore_Mean(rs) ==
    IF Len(rs) = 0 THEN 0
    ELSE Min(RoundDiv(WeightedScore100(rs), maxPossibleScore * Len(rs)), 100)

\* calculateCompositeScore: min(round(weightedScore / maxPossibleScore * 100), 100)
calculateCompositeScore(rs) ==
    IF Len(rs) = 0 THEN 0
    ELSE Min(RoundDiv(WeightedScore100(rs), maxPossibleScore), 100)

scoreToThreatLevel(score) ==
    IF score >= 70 THEN "high" ELSE IF score >= 40 THEN "medium" ELSE "low"

\* performAdvancedThreatAnalysis from the collected reasons on: composite
\* score and level of one source.
analyzeReasons(allReasons) ==
    LET threatScore == calculateCompositeScore(allReasons)
    IN  [threatScore |-> threatScore,
         threatLevel |-> scoreToThreatLevel(threatScore),
         riskFactors |-> allReasons]

(***************************************************************************)
(* Fusion (convertToThreatIntelligence), scores in tenths                  *)
(***************************************************************************)

\* The level recomputed from the adjusted score.
fusedThreatLevel(adjustedThreatScore) ==
    IF adjustedThreatScore >= 700 THEN "high"
    ELSE IF adjustedThreatScore >= 400 THEN "medium" ELSE "low"

\* The fusion without the upper cap of the adjusted score.
convertToThreatIntelligence_NoCap(analysis, reputation) ==
    LET adjustedThreatScore == Max(0, 10 * analysis.threatScore + reputation.reputationBoost)
    IN  [ipAddress |-> reputation.ipAddress,
         threatScore |-> adjustedThreatScore,
         threatLevel |-> fusedThreatLevel(adjustedThreatScore),
         status |-> "active",
         suspicious |-> (adjustedThreatScore >= 300),
         abuseScore |-> reputation.reputation.abuseScore]

\* convertToThreatIntelligence for one source:
\* max(0, min(100, analysis.threatScore + reputation.reputationBoost)).
convertToThreatIntelligence(analysis, reputation) ==
    LET adjustedThreatScore ==
            Max(0, Min(1000, 10 * analysis.threatScore + reputation.reputationBoost))
    IN  [ipAddress |-> reputation.ipAddress,
         threatScore |-> adjustedThreatScore,
         threatLevel |-> fusedThreatLevel(adjustedThreatScore),
         status |-> "active",
         suspicious |-> (adjustedThreatScore >= 300),
         abuseScore |-> reputation.reputation.abuseScore]

(***************************************************************************)
(* Direct scorers (threat-algorithm.ts)                                    *)
(***************************************************************************)

\* The thresholds of the composite scorer.
scoreToSeverity_7040(score) ==
    IF score >= 70 THEN "high" ELSE IF score >= 40 THEN "medium" ELSE "low"

scoreToSeverity(score) ==
    IF score >= 60 THEN "high" ELSE IF score >= 30 THEN "medium" ELSE "low"

\* Failed-attempt bucket: SCORE_FAILED_5_PLUS, SCORE_FAILED_3_4, SCORE_FAILED_1_2.
failedLoginBucket(failedLogins) ==
    IF failedLogins >= 5 THEN 70
    ELSE IF failedLogins >= 3 THEN 30
    ELSE IF failedLogins >= 1 THEN 10 ELSE 0

\* A scorer that rounds half the repeated accesses down.
calculateThreatScore_RoundDown(failedLogins, repeatedAccess, additionalFactors) ==
    LET score == Min(failedLoginBucket(failedLogins) + Min(repeatedAccess \div 2, 30)
                        + additionalFactors, 100)
    IN  [score |-> score,
         threatLevel |-> scoreToSeverity(score),
         failedLoginScore |-> failedLoginBucket(failedLogins),
         repeatedAccessScore |-> Min(repeatedAccess \div 2, 30),
         baseScore |-> additionalFactors,
         isMalicious |-> (score >= 60)]

\* calculateThreatScore; Math.round(x * 0.5) is floor((x + 1) / 2).
calculateThreatScore(failedLogins, repeatedAccess, additionalFactors) ==
    LET failedLoginScore == failedLoginBucket(failedLogins)
        repeatedAccessScore == Min((repeatedAccess + 1) \div 2, 30)
        score == Min(failedLoginScore + repeatedAccessScore + additionalFactors, 100)
    IN  [score |-> score,
         threatLevel |-> scoreToSeverity(score),
         failedLoginScore |-> failedLoginScore,
         repeatedAccessScore |-> repeatedAccessScore,
         baseScore |-> additionalFactors,
         isMalicious |-> (score >= 60)]

\* analyzeUserLogs, from the counters of one address to its threat entry.
scoreAggregate(stats) ==
    LET score == Min(failedLoginBucket(stats.failedCount)
                        + (IF stats.sqlCount > 0 THEN 40 ELSE 0)
                        + (IF stats.malwareCount > 0 THEN 50 ELSE 0)
                        + (IF stats.ddosCount > 0 THEN 60 ELSE 0), 100)
    IN  [threatScore |-> score,
         threatLevel |-> scoreToSeverity(score),
         status |-> "active",
         failedLogins |-> stats.failedCount]

(***************************************************************************)
(* Aggregation by source address (analyzeUserLogs)                         *)
(*                                                                         *)
(* The message of an event is the set of the substrings the scanners look  *)
(* for that its lower-cased text (message, else rawLog) includes.  A       *)
(* timestamp is a Date: a number of minutes, or the Invalid Date.          *)
(***************************************************************************)

SSH_FAILURE_PATTERNS ==
    {"failed password", "invalid user", "authentication failure", "server refused our key",
     "permission denied"}
SQLI_PATTERNS ==
    {"' or '1'='1", "union select", "drop table", "--", "exec(", "replace(", "concat(", "char(",
     "0x"}
LOGIN_ENDPOINT_PATTERNS ==
    {"/login", "login", "/signin", "wp-login.php", "/admin/login", "/api/auth", "/authenticate"}
MALWARE_PATTERNS ==
    {"wget", "curl", "/bin/bash", "base64 -d", "powershell", "meterpreter", "ransomware",
     "backdoor", "botnet", "trojan", "worm", "virus", "spyware"}
DDOS_PATTERNS ==
    {"429", "service unavailable", "connection reset", "too many requests", "rate limit",
     "timeout", "connection refused"}
\* The 401/403 marks of the HTTP status test.
HTTP_STATUS_MARKS == {" 401 ", " 401\"", "status=401", " 403 ", "status=403"}

DateOf(minutes) == [minutes |-> minutes]
InvalidDate == [invalid |-> TRUE]

\* a > b on Dates: false as soon as one of them is the Invalid Date.
DateAfter(a, b) == a # InvalidDate /\ b # InvalidDate /\ a.minutes > b.minutes

\* The empty sourceIp and the key used for it: l.sourceIp || "0.0.0.0".
EmptyIp == <<>>
ZeroIp == <<0, 0, 0, 0>>

\* A scan that counts every pattern found.
Hit_EveryPattern(message, patterns) == Cardinality(message \cap patterns)

\* for (const p of patterns) if (msgLower.includes(p)) { count++; break }
Hit(message, patterns) == IF message \cap patterns # {} THEN 1 ELSE 0

\* The entry of a first event of an address, before it is counted.
NewEntry(l) ==
    [failedCount |-> 0, sqlCount |-> 0, malwareCount |-> 0, ddosCount |-> 0,
     http401or403Count |-> 0, loginEndpointCount |-> 0, lastSeen |-> l.timestamp,
     totalEvents |-> 0]

\* The body of logs.forEach on one event and its entry.
CountEvent(entry, l) ==
    [failedCount |-> entry.failedCount + Hit(l.message, SSH_FAILURE_PATTERNS),
     sqlCount |-> entry.sqlCount + Hit(l.message, SQLI_PATTERNS),
     malwareCount |-> entry.malwareCount + Hit(l.message, MALWARE_PATTERNS),
     ddosCount |-> entry.ddosCount + Hit(l.message, DDOS_PATTERNS),
     http401or403Count |-> entry.http401or403Count + Hit(l.message, HTTP_STATUS_MARKS),
     loginEndpointCount |-> entry.loginEndpointCount + Hit(l.message, LOGIN_ENDPOINT_PATTERNS),
     lastSeen |-> IF DateAfter(l.timestamp, entry.lastSeen) THEN l.timestamp ELSE entry.lastSeen,
     totalEvents |-> entry.totalEvents + 1]

RECURSIVE byIp(_)
\* The Map byIp after the forEach: [ip, stats] in the order of insertion.
byIp(logs) ==
    IF logs = <<>> THEN <<>>
    ELSE LET before == byIp(SubSeq(logs, 1, Len(logs) - 1))
             l == logs[Len(logs)]
             ip == IF l.sourceIp = EmptyIp THEN ZeroIp ELSE l.sourceIp
             at == { i \in 1..Len(before) : before[i].ip = ip }
         IN  IF at = {}
             THEN Append(before, [ip |-> ip, stats |-> CountEvent(NewEntry(l), l)])
             ELSE LET i == CHOOSE i \in at : TRUE
                  IN  [before EXCEPT ![i].stats = CountEvent(@, l)]

\* A sequence without its empty strings.
RECURSIVE Compact(_)
Compact(seq) ==
    IF seq = <<>> THEN <<>>
    ELSE IF seq[1] = "" THEN Compact(Tail(seq)) ELSE <<seq[1]>> \o Compact(Tail(seq))

\* The attack types pushed for one address, in the order of the pushes.
attacksOf(stats) ==
    Compact(<< IF stats.failedCount > 0 THEN "ssh_bruteforce" ELSE "",
               IF stats.sqlCount > 0 THEN "sql_injection" ELSE "",
               IF stats.http401or403Count > 0 /\ stats.loginEndpointCount > 0
                    THEN "web_bruteforce" ELSE "",
               IF stats.malwareCount > 0 THEN "malware_suspicious_activity" ELSE "",
               IF stats.ddosCount > 0 THEN "ddos_attack" ELSE "" >>)

thresholdForSuspicious == 30

\* The record pushed by byIp.forEach for one address.
threatOf(userId, ip, stats) ==
    LET scored == scoreAggregate(stats)
        attacks == attacksOf(stats)
    IN  [id |-> [userId |-> userId, ip |-> ip],
         userId |-> userId,
         ipAddress |-> ip,
         threatScore |-> scored.threatScore,
         threatLevel |-> scored.threatLevel,
         lastSeen |-> stats.lastSeen,
         status |-> scored.status,
         failedLogins |-> scored.failedLogins,
         repeatedAccess |-> stats.totalEvents,
         sqlCount |-> stats.sqlCount,
         malwareCount |-> stats.malwareCount,
         ddosCount |-> stats.ddosCount,
         detectedAttackTypes |-> attacks,
         totalSuspiciousEvents |-> stats.failedCount + stats.sqlCount + stats.malwareCount
                                    + stats.http401or403Count + stats.loginEndpointCount,
         suspicious |-> (scored.threatScore >= thresholdForSuspicious \/ Len(attacks) >= 2)]

\* analyzeUserLogs: one record per address of byIp.  sqlCount, malwareCount
\* and ddosCount stand for the counts quoted in the description.
analyzeUserLogs(logs, userId) ==
    LET groups == byIp(logs)
    IN  [i \in 1..Len(groups) |-> threatOf(userId, groups[i].ip, groups[i].stats)]

\* Events an event list is drawn from: two phrases of one family, phrases
\* of every family, no phrase, a second address, the sentinel address, an
\* empty address, an Invalid Date.
SampleEvents ==
    { [sourceIp |-> <<45, 1, 1, 1>>, timestamp |-> DateOf(2),
       message |-> {"failed password", "invalid user"}],
      [sourceIp |-> <<45, 1, 1, 1>>, timestamp |-> DateOf(5),
       message |-> {"union select", "wget", "429", "/login", "login", " 401 "}],
      [sourceIp |-> <<45, 1, 1, 1>>, timestamp |-> DateOf(1), message |-> {}],
      [sourceIp |-> <<192, 168, 1, 100>>, timestamp |-> DateOf(3),
       message |-> {"failed password"}],
      [sourceIp |-> ZeroIp, timestamp |-> DateOf(4), message |-> {"timeout"}],
      [sourceIp |-> EmptyIp, timestamp |-> DateOf(6), message |-> {"curl"}],
      [sourceIp |-> <<45, 1, 1, 1>>, timestamp |-> InvalidDate,
       message |-> {"failed password"}] }

EventLists == UNION { [1..n -> SampleEvents] : n \in 0..MaxEvents }

InitAnalyze ==
    /\ fnIn \in { [fn |-> "analyzeUserLogs", logs |-> ls] : ls \in EventLists }
    /\ fnOut = Null
    /\ reputationCache = [ip \in Addrs |-> Null]
    /\ IP_REPUTATION_DB = InitialReputationDb
    /\ apiKey = FALSE
    /\ now = 0
    /\ calls = <<>>
    /\ StoreNotLoaded
    /\ lastIndex = 0

ApplyAnalyzeUserLogs ==
    /\ fnOut = Null /\ fnIn.fn = "analyzeUserLogs"
    /\ fnOut' = [threats |-> analyzeUserLogs(fnIn.logs, "demo-user-1")]
    /\ UNCHANGED <<fnIn, repVars, storeVars, lastIndex>>

NextAnalyze == ApplyAnalyzeUserLogs

SpecAnalyze == InitAnalyze /\ [][NextAnalyze]_vars

(***************************************************************************)
(* The scoring functions applied to drawn inputs                           *)
(***************************************************************************)

\* Findings a list is drawn from: two methods of the table at high
\* confidence and one method the table does not know.
SampleFindings ==
    << [method |-> "SQL Injection Signature Detection", confidence |-> 100],
       [method |-> "Multi-Vector Attack Detection", confidence |-> 95],
       [method |-> "Custom Rule Detection", confidence |-> 60] >>

\* Findings added to a list.
ExtraFindings ==
    { [method |-> m, confidence |-> c] :
        m \in {"SQL Injection Signature Detection", "Concentrated Attack Window Detection",
               "Custom Rule Detection"},
        c \in {0, 1, 50, 100} }

RECURSIVE Repeat(_, _)
Repeat(x, n) == IF n = 0 THEN <<>> ELSE <<x>> \o Repeat(x, n - 1)

\* The list holding counts[i] copies of SampleFindings[i].
ReasonsOf(counts) ==
    Repeat(SampleFindings[1], counts[1]) \o Repeat(SampleFindings[2], counts[2])
        \o Repeat(SampleFindings[3], counts[3])

ReasonLists == { ReasonsOf(c) : c \in [1..3 -> 0..MaxCopies] }

\* Reputation records for the boost: the corners of every component.
BoostRecords ==
    [ipAddress : {<<45, 1, 1, 1>>},
     abuseScore : {0, 1, 37, 100},
     reportCount : {0, 1, 99, 100, 523},
     lastReported : {24, 0, -(7 * 24) + 1, -(7 * 24), -(30 * 24) + 1, -(30 * 24),
                     -(90 * 24) + 1, -(90 * 24), Epoch},
     isBlacklisted : BOOLEAN,
     country : {"US", "KP", "Unknown"},
     reputationTrend : {"improving", "stable", "declining"}]

\* Reputation analyses fused with a composite score: the seeded records and
\* a clean record whose reputation improves.
FuseReputations ==
    { [ipAddress |-> r.ipAddress, reputation |-> r,
       reputationBoost |-> calculateReputationBoost(r, 0)] :
        r \in SeedRecords \cup
              { [ipAddress |-> <<45, 1, 1, 1>>, abuseScore |-> 0, reportCount |-> 2,
                 lastReported |-> Epoch, isBlacklisted |-> FALSE, country |-> "US",
                 isp |-> "ExampleNet", reputationTrend |-> "improving",
                 threatCategories |-> <<>>, riskLevel |-> "low"] } }

DirectInputs ==
    [failedLogins : {-1, 0, 1, 2, 3, 4, 5, 9},
     repeatedAccess : {-3, 0, 1, 2, 3, 59, 60, 61, 200},
     additionalFactors : {-5, 0, 5, 29, 30, 65, 100}]

AggregateStats ==
    [failedCount : {0, 1, 3, 5}, sqlCount : {0, 2}, malwareCount : {0, 1}, ddosCount : {0, 1}]

ScoreInputs ==
    { [fn |-> "calculateReputationBoost", reputation |-> r] : r \in BoostRecords }
    \cup { [fn |-> "calculateCompositeScore", reasons |-> rs, extra |-> f] :
                rs \in ReasonLists, f \in ExtraFindings }
    \cup { [fn |-> "convertToThreatIntelligence", reasons |-> rs, reputation |-> rep] :
                rs \in ReasonLists, rep \in FuseReputations }
    \cup { [fn |-> "calculateThreatScore", args |-> a] : a \in DirectInputs }
    \cup { [fn |-> "analyzeUserLogs", stats |-> st] : st \in AggregateStats }

InitScore ==
    /\ fnIn \in ScoreInputs
    /\ fnOut = Null
    /\ reputationCache = [ip \in Addrs |-> Null]
    /\ IP_REPUTATION_DB = InitialReputationDb
    /\ apiKey = FALSE
    /\ now = 0
    /\ calls = <<>>
    /\ StoreNotLoaded
    /\ lastIndex = 0

\* Both copies of calculateReputationBoost on one record.
ApplyBoost ==
    /\ fnOut = Null /\ fnIn.fn = "calculateReputationBoost"
    /\ fnOut' = [local |-> calculateReputationBoost(fnIn.reputation, now),
                 api |-> calculateReputationBoostApi(fnIn.reputation, now)]
    /\ UNCHANGED <<fnIn, repVars, storeVars, lastIndex>>

\* The composite score of a list, and of the list with one more finding pushed.
ApplyComposite ==
    /\ fnOut = Null /\ fnIn.fn = "calculateCompositeScore"
    /\ fnOut' = [before |-> analyzeReasons(fnIn.reasons),
                 after |-> analyzeReasons(Append(fnIn.reasons, fnIn.extra))]
    /\ UNCHANGED <<fnIn, repVars, storeVars, lastIndex>>

\* The analysis of a list fused with a reputation analysis.
ApplyFuse ==
    /\ fnOut = Null /\ fnIn.fn = "convertToThreatIntelligence"
    /\ LET analysis == analyzeReasons(fnIn.reasons)
       IN  fnOut' = [analysis |-> analysis,
                     threat |-> convertToThreatIntelligence(analysis, fnIn.reputation)]
    /\ UNCHANGED <<fnIn, repVars, storeVars, lastIndex>>

ApplyDirect ==
    /\ fnOut = Null /\ fnIn.fn = "calculateThreatScore"
    /\ fnOut' = [result |-> calculateThreatScore(fnIn.args.failedLogins, fnIn.args.repeatedAccess,
                                                 fnIn.args.additionalFactors)]
    /\ UNCHANGED <<fnIn, repVars, storeVars, lastIndex>>

ApplyAggregate ==
    /\ fnOut = Null /\ fnIn.fn = "analyzeUserLogs"
    /\ fnOut' = [threat |-> scoreAggregate(fnIn.stats)]
    /\ UNCHANGED <<fnIn, repVars, storeVars, lastIndex>>

NextScore == ApplyBoost \/ ApplyComposite \/ ApplyFuse \/ ApplyDirect \/ ApplyAggregate

SpecScore == InitScore /\ [][NextScore]_vars

(***************************************************************************)
(* Log parser (log-parser.ts)                                              *)
(*                                                                         *)
(* A line is a number of leading blanks and a sequence of tokens joined by *)
(* single blanks.  Each pattern of the parser is decided from the tokens   *)
(* of the line, as the regular expression decides it on their text.  An    *)
(* event carries its source address, category, message and severity; the  *)
(* timestamp is left out.                                                  *)
(***************************************************************************)

OpenBrace == "{"
CloseBrace == "}"
\* JSON members: a string message, and a numeric message, on which
\* determineSeverity raises inside the try of parseJSONLog.
JsonMemberText == "\"msg\":\"denied\""
JsonMemberNumber == "\"msg\":42"
JsonMemberLevel == "\"level\":\"debug\""
JsonMembersNumberLevel == "\"msg\":42,\"level\":\"debug\""
JsonMemberSrc == "\"src\":\"gateway\""
IsoStamp == "2024-01-16T10:30:00Z"
K8sTag == "pod=web"
IpToken == "10.0.0.5"
\* Two blanks between date and time: ISO_TIMESTAMP_PATTERN asks for one.
MacUnifiedHeader == "2024-01-16  10:30:00.123+0000 0x1f [sshd]"
SyslogHeader == "Jan 16 10:30:00 host sshd:"
SyslogHeaderPid == "Jan 16 10:30:00 host sshd[123]:"
SyslogHeaderBadMonth == "Foo 16 10:30:00 host sshd:"
BracketDate == "[16/Jan/2024:10:30:00]"
HttpRequest == "\"GET /login HTTP/1.1\" 401 512"
EventTag == "<Event>"
\* The Windows sample line of getSampleLogFormats, and an event without a
\* SystemTime element.
EventSample == "<Event><System><EventID>4625</EventID><Level>2</Level><Computer>SERVER-01</Computer><SystemTime>2024-01-16T10:30:00Z</SystemTime></System><EventData><Data>Administrator</Data><Data>10.0.0.50</Data></EventData></Event>"
EventLevel3 == "<Event><System><Level>3</Level></System></Event>"
\* The sample line up to its ISO stamp, and its first Data element.
EventSampleHead == "<Event><System><EventID>4625</EventID><Level>2</Level><Computer>SERVER-01</Computer><SystemTime>"
EventSampleData == "Administrator"
DbVerb == "DELETE"
Word == "session"
MailAddress == "root@host"

Tokens ==
    { OpenBrace, CloseBrace, JsonMemberText, JsonMemberNumber, JsonMemberLevel,
      JsonMembersNumberLevel, JsonMemberSrc, IsoStamp, K8sTag, IpToken,
      MacUnifiedHeader, SyslogHeader, SyslogHeaderPid, SyslogHeaderBadMonth, BracketDate,
      HttpRequest, EventTag, EventSample, EventLevel3, DbVerb, Word, MailAddress }

SyslogHeaders == { SyslogHeader, SyslogHeaderPid, SyslogHeaderBadMonth }

\* Tokens of more than one word.
SeveralWords == SyslogHeaders \cup { MacUnifiedHeader, HttpRequest }

\* What may stand between the braces of a JSON line.
JsonMembers ==
    { JsonMemberText, JsonMemberNumber, JsonMemberLevel, JsonMembersNumberLevel, JsonMemberSrc }

\* Tokens holding a colon that text follows.
ColonInside ==
    JsonMembers \cup SyslogHeaders \cup { IsoStamp, MacUnifiedHeader, BracketDate, EventSample }

\* Tokens whose text holds "[": includes("[").
BracketTokens == { MacUnifiedHeader, SyslogHeaderPid, BracketDate }

\* The sentinel address.
NoAddress == "0.0.0.0"

RECURSIVE TextLength(_)
\* Length of the tokens joined by single blanks.
TextLength(tokens) ==
    IF tokens = <<>> THEN 0
    ELSE IF Len(tokens) = 1 THEN Len(tokens[1])
    ELSE Len(tokens[1]) + 1 + TextLength(Tail(tokens))

Has(tokens, set) == \E i \in 1..Len(tokens) : tokens[i] \in set

\* JSON_LOG_PATTERN: /^{.*}$/
JSON_LOG_PATTERN(tokens) ==
    /\ Len(tokens) >= 2
    /\ tokens[1] = OpenBrace
    /\ tokens[Len(tokens)] = CloseBrace

\* JSON.parse succeeds: the braces hold nothing or one member (the tokens
\* hold no comma).
JsonParses(tokens) ==
    /\ JSON_LOG_PATTERN(tokens)
    /\ \/ Len(tokens) = 2
       \/ Len(tokens) = 3 /\ tokens[2] \in JsonMembers

\* ISO_TIMESTAMP_PATTERN, unanchored.
ISO_TIMESTAMP_PATTERN(tokens) == Has(tokens, {IsoStamp, EventSample})

\* MAC_UNIFIED_LOG_PATTERN, unanchored.
MAC_UNIFIED_LOG_PATTERN(tokens) == Has(tokens, {MacUnifiedHeader})

\* MAC_SYSTEM_LOG_PATTERN and SYSLOG_PATTERN: the header opens the line and
\* text follows its colon.
MAC_SYSTEM_LOG_PATTERN(tokens) ==
    Len(tokens) >= 2 /\ tokens[1] \in SyslogHeaders

SYSLOG_PATTERN(tokens) ==
    Len(tokens) >= 2 /\ tokens[1] \in SyslogHeaders

\* HTTP_LOG_PATTERN: an address, later a quoted request and a status.
HTTP_LOG_PATTERN(tokens) ==
    \E i, j \in 1..Len(tokens) :
        i < j /\ tokens[i] \in {IpToken, EventSample} /\ tokens[j] = HttpRequest

\* The first match of IP_PATTERN in a token that holds one.
AddressIn(token) == IF token = EventSample THEN "10.0.0.50" ELSE IpToken

\* extractIP: the first address of the text, or null.
extractIP(tokens) ==
    LET at == { i \in 1..Len(tokens) : tokens[i] \in {IpToken, EventSample} }
    IN  IF at = {} THEN NoAddress
        ELSE AddressIn(tokens[CHOOSE i \in at : \A j \in at : i <= j])

\* A message: the tokens its text reaches into, or the number a JSON
\* member gave for it.
Text(tokens) == [text |-> tokens]
NotAString == [number |-> 42]

\* Tokens after position i.
After(tokens, i) == SubSeq(tokens, i + 1, Len(tokens))

Event(sourceIp, logType, message, severity) ==
    [sourceIp |-> sourceIp, logType |-> logType, message |-> message, severity |-> severity]

\* Words of a message that hold keywords of determineSeverity, and one
\* that holds only the stem "fail".
SeverityWords ==
    { "CRITICAL", "panic", "failed", "failure", "Invalid", "rejected", "error", "warning",
      "blocked" }

\* The keywords that the lower-cased text of a token includes.
KeywordsIn(token) ==
    CASE token = "CRITICAL" -> {"critical"}
      [] token = "panic" -> {"panic"}
      [] token = "failed" -> {"failed", "fail"}
      [] token = "failure" -> {"fail"}
      [] token = "Invalid" -> {"invalid"}
      [] token = "rejected" -> {"rejected"}
      [] token = "error" -> {"error"}
      [] token = "warning" -> {"warning", "warn"}
      [] token = "blocked" -> {"blocked"}
      [] token = JsonMemberText -> {"denied"}
      [] OTHER -> {}

\* lowerMessage.includes(keyword) for some keyword of the set.
Includes(message, keywords) ==
    \E i \in 1..Len(message.text) : KeywordsIn(message.text[i]) \cap keywords # {}

\* AUTH_FAILED_PATTERN: /(?:failed|invalid|error|denied|rejected)/i
AUTH_FAILED_PATTERN == {"failed", "invalid", "error", "denied", "rejected"}

\* determineSeverity on a string.
determineSeverity(message) ==
    IF Includes(message, {"critical", "emergency", "panic", "fatal"}) THEN "critical"
    ELSE IF Includes(message, AUTH_FAILED_PATTERN \cup {"error", "failed", "denied"})
         THEN "error"
    ELSE IF Includes(message, {"warning", "warn", "blocked", "suspicious"}) THEN "warning"
    ELSE "info"

\* parseJSONLog: null when JSON.parse or anything after it raises;
\* determineSeverity raises on a message that is not a string.
parseJSONLog(tokens) ==
    IF ~JsonParses(tokens) THEN Null
    ELSE
      LET member == IF Len(tokens) = 3 THEN tokens[2] ELSE ""
          sourceIp == IF member = JsonMemberSrc THEN "gateway" ELSE extractIP(tokens)
          message == IF member = JsonMemberText THEN Text(<<member>>)
                     ELSE IF member \in {JsonMemberNumber, JsonMembersNumberLevel} THEN NotAString
                     ELSE Text(tokens)
          level == IF member \in {JsonMemberLevel, JsonMembersNumberLevel} THEN "debug" ELSE ""
      IN  IF level # "" THEN Event(sourceIp, "system", message, level)
          ELSE IF message = NotAString THEN Null
          ELSE Event(sourceIp, "system", message, determineSeverity(message))

\* The message is the line without its ISO stamps and what follows them up
\* to the next blank.
parseKubernetesLog(tokens) ==
    LET stampless == SelectSeq(tokens, LAMBDA t : t # IsoStamp)
        message == Text([i \in 1..Len(stampless) |->
                            IF stampless[i] = EventSample THEN EventSampleHead
                            ELSE stampless[i]])
    IN  Event(extractIP(tokens), "application", message, determineSeverity(message))

\* The message is the line after its first word, or the line when that is
\* empty.
parseDockerLog(tokens) ==
    LET message == Text(IF Len(tokens) = 1 \/ tokens[1] \in SeveralWords
                        THEN tokens ELSE Tail(tokens))
    IN  Event(extractIP(tokens), "application", message, determineSeverity(message))

\* parseMacUnifiedLog: null unless text follows the bracketed process name.
parseMacUnifiedLog(tokens) ==
    LET at == { i \in 1..(Len(tokens) - 1) : tokens[i] = MacUnifiedHeader }
    IN  IF at = {} THEN Null
        ELSE LET first == CHOOSE i \in at : \A j \in at : i <= j
                 message == Text(After(tokens, first))
             IN  Event(extractIP(tokens), "auth", message, determineSeverity(message))

\* parseMacSystemLog: null when the month is not a month; the message
\* starts after the last colon that text follows.
parseMacSystemLog(tokens) ==
    IF ~MAC_SYSTEM_LOG_PATTERN(tokens) THEN Null
    ELSE IF tokens[1] = SyslogHeaderBadMonth THEN Null
    ELSE LET inside == { i \in 2..Len(tokens) : tokens[i] \in ColonInside }
             message == IF inside = {} THEN Text(Tail(tokens))
                        ELSE LET last == CHOOSE i \in inside : \A j \in inside : j <= i
                             IN  Text(After(tokens, last - 1))
         IN  Event(extractIP(tokens), "auth", message, determineSeverity(message))

\* parseHTTPLog: null unless a bracketed date stands between the address and
\* the request and a byte count follows the status; the status of the
\* request token is 401.
parseHTTPLog(tokens) ==
    IF \E i, k, j \in 1..Len(tokens) :
            /\ i < k /\ k < j
            /\ tokens[i] = IpToken /\ tokens[k] \in BracketTokens /\ tokens[j] = HttpRequest
    THEN Event(IpToken, "application", Text(<<HttpRequest>>), "warning")
    ELSE Null

\* The message is what follows the colon of the header.
parseSyslogLine(tokens) ==
    LET message == Text(Tail(tokens))
    IN  Event(extractIP(tokens), "auth", message, determineSeverity(message))

\* severityMap[levelMatch?.[1] || "4"] || "info", on the first Level element
\* of the line.
LevelSeverity(tokens) ==
    LET at == { i \in 1..Len(tokens) : tokens[i] \in {EventSample, EventLevel3} }
        level == IF at = {} THEN 4
                 ELSE IF tokens[CHOOSE i \in at : \A j \in at : i <= j] = EventSample THEN 2
                 ELSE 3
    IN  CASE level = 1 -> "critical"
          [] level = 2 -> "error"
          [] level = 3 -> "warning"
          [] level \in {4, 5} -> "info"
          [] OTHER -> "info"

\* parseWindowsEventLog: the message is the first Data element, else the
\* line.
parseWindowsEventLog(tokens) ==
    Event(NoAddress, "system",
          IF Has(tokens, {EventSample}) THEN Text(<<EventSampleData>>) ELSE Text(tokens),
          LevelSeverity(tokens))

\* The message is what follows the first verb that text follows, else the
\* line.
parseDatabaseAuditLog(tokens) ==
    LET at == { i \in 1..(Len(tokens) - 1) : tokens[i] = DbVerb }
        message == IF at = {} THEN Text(tokens)
                   ELSE Text(After(tokens, CHOOSE i \in at : \A j \in at : i <= j))
    IN  Event(extractIP(tokens), "system", message, determineSeverity(message))

\* The last return of parseSingleLine.
parseFallback(tokens) ==
    Event(extractIP(tokens), "system", Text(tokens), determineSeverity(Text(tokens)))

\* The result of one format on a line.
ParseAs(format, tokens) ==
    CASE format = "none" -> Null
      [] format = "json" -> parseJSONLog(tokens)
      [] format = "kubernetes" -> parseKubernetesLog(tokens)
      [] format = "docker" -> parseDockerLog(tokens)
      [] format = "macUnified" -> parseMacUnifiedLog(tokens)
      [] format = "macSystem" -> parseMacSystemLog(tokens)
      [] format = "http" -> parseHTTPLog(tokens)
      [] format = "syslog" -> parseSyslogLine(tokens)
      [] format = "windows" -> parseWindowsEventLog(tokens)
      [] format = "database" -> parseDatabaseAuditLog(tokens)
      [] format = "fallback" -> parseFallback(tokens)

\* The chain of tests after the JSON test.
RouteAfterJson(trimmed) ==
    IF ISO_TIMESTAMP_PATTERN(trimmed)
    THEN (IF Has(trimmed, {K8sTag}) THEN "kubernetes" ELSE "docker")
    ELSE IF MAC_UNIFIED_LOG_PATTERN(trimmed) THEN "macUnified"
    ELSE IF /\ MAC_SYSTEM_LOG_PATTERN(trimmed)
            /\ ~Has(trimmed, {MailAddress}) /\ ~Has(trimmed, BracketTokens) THEN "macSystem"
    ELSE IF HTTP_LOG_PATTERN(trimmed) THEN "http"
    ELSE IF SYSLOG_PATTERN(trimmed) THEN "syslog"
    ELSE IF Has(trimmed, {EventTag, EventSample, EventLevel3}) THEN "windows"
    ELSE IF Has(trimmed, {DbVerb}) THEN "database"
    ELSE "fallback"

\* A router whose JSON test also asks for valid JSON.
RouteOf_ValidJson(trimmed) ==
    IF TextLength(trimmed) < 10 THEN "none"
    ELSE IF JsonParses(trimmed) THEN "json"
    ELSE RouteAfterJson(trimmed)

\* The branch parseSingleLine takes on the trimmed line.
RouteOf(trimmed) ==
    IF TextLength(trimmed) < 10 THEN "none"
    ELSE IF JSON_LOG_PATTERN(trimmed) THEN "json"
    ELSE RouteAfterJson(trimmed)

\* parseSingleLine: the branch taken and what it returns.
parseSingleLine(line) ==
    LET trimmed == line.tokens
        format == RouteOf(trimmed)
    IN  [format |-> format, event |-> ParseAs(format, trimmed)]

\* !line.trim()
IsBlank(line) == line.tokens = <<>>

\* errors.slice(0, 10)
MaxErrors == 10

\* The errors returned whole.
sliceErrors_All(errors) == errors

sliceErrors(errors) == SubSeq(errors, 1, Min(Len(errors), MaxErrors))

RECURSIVE forEachLine(_, _)
\* lines.forEach over the first n lines: the entries and errors collected.
forEachLine(lines, n) ==
    IF n = 0 THEN [entries |-> <<>>, errors |-> <<>>, parsedLines |-> 0]
    ELSE LET acc == forEachLine(lines, n - 1)
             parsed == parseSingleLine(lines[n]).event
         IN  IF IsBlank(lines[n]) THEN acc
             ELSE IF parsed # Null
             THEN [acc EXCEPT !.entries = Append(@, parsed), !.parsedLines = @ + 1]
             ELSE [acc EXCEPT !.errors =
                        Append(@, [line |-> n, text |-> "Could not parse log format"])]

NonBlankCount(lines) == Cardinality({ i \in 1..Len(lines) : ~IsBlank(lines[i]) })

\* A parseLogs that succeeds as soon as the text has a non-blank line.
parseLogs_SuccessOnAnyLine(lines) ==
    LET acc == forEachLine(lines, Len(lines))
    IN  [success |-> NonBlankCount(lines) > 0,
         entries |-> acc.entries,
         errors |-> sliceErrors(acc.errors),
         totalLines |-> NonBlankCount(lines),
         parsedLines |-> acc.parsedLines]

\* parseLogs on content.split("\n").
parseLogs(lines) ==
    LET acc == forEachLine(lines, Len(lines))
    IN  [success |-> Len(acc.entries) > 0,
         entries |-> acc.entries,
         errors |-> sliceErrors(acc.errors),
         totalLines |-> NonBlankCount(lines),
         parsedLines |-> acc.parsedLines]

(***************************************************************************)
(* The parser applied to drawn lines and texts                             *)
(***************************************************************************)

TokenSeqs == UNION { [1..n -> Tokens] : n \in 0..MaxTokens }

\* Leading blanks of a line.
Indents == {0, 4}

Lines == [indent : Indents, tokens : TokenSeqs]

InitParseLine ==
    /\ fnIn \in { [fn |-> "parseSingleLine", line |-> l] : l \in Lines }
    /\ fnOut = Null
    /\ reputationCache = [ip \in Addrs |-> Null]
    /\ IP_REPUTATION_DB = InitialReputationDb
    /\ apiKey = FALSE
    /\ now = 0
    /\ calls = <<>>
    /\ StoreNotLoaded
    /\ lastIndex = 0

ApplyParseSingleLine ==
    /\ fnOut = Null /\ fnIn.fn = "parseSingleLine"
    /\ fnOut' = parseSingleLine(fnIn.line)
    /\ UNCHANGED <<fnIn, repVars, storeVars, lastIndex>>

NextParseLine == ApplyParseSingleLine

SpecParseLine == InitParseLine /\ [][NextParseLine]_vars

\* Lines of a text: empty, blanks only, too short, a syslog line, a
\* brace-delimited line that is not JSON.
EmptyLine == [indent |-> 0, tokens |-> <<>>]
BlanksLine == [indent |-> 4, tokens |-> <<>>]
ShortLine == [indent |-> 0, tokens |-> <<Word>>]
GoodLine == [indent |-> 0, tokens |-> <<SyslogHeaderPid, Word>>]
BadLine == [indent |-> 4, tokens |-> <<OpenBrace, Word, CloseBrace>>]

EdgeLines == { EmptyLine, BlanksLine, ShortLine, GoodLine, BadLine }

\* A text: some lines, a run of unparseable lines, at most one more line.
\* split never returns the empty array.
Contents ==
    { head \o Repeat(BadLine, pad) \o last :
        head \in UNION { [1..n -> EdgeLines] : n \in 0..MaxEdge },
        pad \in 0..MaxPad,
        last \in {<<>>} \cup { <<l>> : l \in EdgeLines } } \ {<<>>}

InitParseLogs ==
    /\ fnIn \in { [fn |-> "parseLogs", lines |-> c] : c \in Contents }
    /\ fnOut = Null
    /\ reputationCache = [ip \in Addrs |-> Null]
    /\ IP_REPUTATION_DB = InitialReputationDb
    /\ apiKey = FALSE
    /\ now = 0
    /\ calls = <<>>
    /\ StoreNotLoaded
    /\ lastIndex = 0

ApplyParseLogs ==
    /\ fnOut = Null /\ fnIn.fn = "parseLogs"
    /\ fnOut' = parseLogs(fnIn.lines)
    /\ UNCHANGED <<fnIn, repVars, storeVars, lastIndex>>

NextParseLogs == ApplyParseLogs

SpecParseLogs == InitParseLogs /\ [][NextParseLogs]_vars

\* Messages of up to MaxWords words.
Messages == { Text(ws) : ws \in UNION { [1..n -> SeverityWords \cup {Word}] : n \in 0..MaxWords } }

InitSeverity ==
    /\ fnIn \in { [message |-> m] : m \in Messages }
    /\ fnOut = Null
    /\ reputationCache = [ip \in Addrs |-> Null]
    /\ IP_REPUTATION_DB = InitialReputationDb
    /\ apiKey = FALSE
    /\ now = 0
    /\ calls = <<>>
    /\ StoreNotLoaded
    /\ lastIndex = 0

ApplyDetermineSeverity ==
    /\ fnOut = Null
    /\ fnOut' = [severity |-> determineSeverity(fnIn.message)]
    /\ UNCHANGED <<fnIn, repVars, storeVars, lastIndex>>

NextSeverity == ApplyDetermineSeverity

SpecSeverity == InitSeverity /\ [][NextSeverity]_vars

(***************************************************************************)
(* isValidLogContent and the lastIndex of IP_PATTERN                       *)
(*                                                                         *)
(* IP_PATTERN carries the g flag: test starts at lastIndex and leaves it   *)
(* behind the match, or at 0 when nothing matches; match starts at 0 and   *)
(* leaves it at 0.                                                         *)
(***************************************************************************)

\* The text of a line: its leading blanks, then its tokens.
LineLength(line) == line.indent + TextLength(line.tokens)

\* Where token i of the line starts.
TokenStart(line, i) ==
    line.indent + (IF i = 1 THEN 0 ELSE TextLength(SubSeq(line.tokens, 1, i - 1)) + 1)

\* Where the address of an address token starts within the token.
AddressOffset(token) == IF token = EventSample THEN 181 ELSE 0

\* IP_PATTERN.test(line) with lastIndex at from: the first address that
\* starts at from or later.
TestIpPattern(line, from) ==
    LET starts == { TokenStart(line, i) + AddressOffset(line.tokens[i]) :
                        i \in { k \in 1..Len(line.tokens) :
                                    line.tokens[k] \in {IpToken, EventSample} } }
        later == { start \in starts : start >= from }
        first == CHOOSE start \in later : \A other \in later : start <= other
        token == line.tokens[CHOOSE i \in 1..Len(line.tokens) :
                                TokenStart(line, i) + AddressOffset(line.tokens[i]) = first]
    IN  IF later = {} THEN [found |-> FALSE, lastIndex |-> 0]
        ELSE [found |-> TRUE, lastIndex |-> first + Len(AddressIn(token))]

\* /\d{4}[-/]\d{2}[-/]\d{2}/ and /\d{2}:\d{2}:\d{2}/
DateTokens == { IsoStamp, MacUnifiedHeader, EventSample }
TimeTokens == DateTokens \cup SyslogHeaders \cup { BracketDate }

\* The filter of isValidLogContent on one line: SYSLOG_PATTERN is anchored
\* and tested on the untrimmed line; IP_PATTERN is tested when it fails.
LooksLikeLog(line, from) ==
    IF line.indent = 0 /\ SYSLOG_PATTERN(line.tokens)
    THEN [valid |-> TRUE, lastIndex |-> from]
    ELSE LET ip == TestIpPattern(line, from)
         IN  [valid |-> ip.found \/ Has(line.tokens, TimeTokens),
              lastIndex |-> ip.lastIndex]

RECURSIVE validLines(_, _, _)
\* lines.filter over the first n non-blank lines: the number of valid lines
\* and the lastIndex left behind.
validLines(lines, n, from) ==
    IF n = 0 THEN [count |-> 0, lastIndex |-> from]
    ELSE Bind(validLines(lines, n - 1, from),
              LAMBDA before :
                Bind(LooksLikeLog(lines[n], before.lastIndex),
                     LAMBDA this :
                        [count |-> before.count + (IF this.valid THEN 1 ELSE 0),
                         lastIndex |-> this.lastIndex]))

RECURSIVE ContentLength(_)
\* Length of the lines joined by line feeds.
ContentLength(content) ==
    IF content = <<>> THEN 0
    ELSE IF Len(content) = 1 THEN LineLength(content[1])
    ELSE LineLength(content[1]) + 1 + ContentLength(Tail(content))

\* isValidLogContent with IP_PATTERN.lastIndex at from.
\* validLines.length >= Math.min(lines.length * 0.3, 1), in tenths.
isValidLogContent(content, from) ==
    IF ContentLength(content) < 10 THEN [result |-> FALSE, lastIndex |-> from]
    ELSE LET lines == SelectSeq(content, LAMBDA l : ~IsBlank(l))
         IN  IF Len(lines) = 0 THEN [result |-> FALSE, lastIndex |-> from]
             ELSE LET valid == validLines(lines, Len(lines), from)
                  IN  [result |-> 10 * valid.count >= Min(3 * Len(lines), 10),
                       lastIndex |-> valid.lastIndex]

\* Whether parseSingleLine on the line reaches a call of extractIP.
ReachesExtractIP(line) ==
    LET parsed == parseSingleLine(line)
    IN  \/ parsed.format \in {"kubernetes", "docker", "syslog", "database", "fallback"}
        \/ parsed.format \in {"macUnified", "macSystem"} /\ parsed.event # Null
        \/ /\ parsed.format = "json" /\ JsonParses(line.tokens)
           /\ ~Has(line.tokens, {JsonMemberSrc})

\* IP_PATTERN.lastIndex after parseLogs(content).
lastIndexAfterParseLogs(content, from) ==
    IF \E i \in 1..Len(content) : ~IsBlank(content[i]) /\ ReachesExtractIP(content[i])
    THEN 0 ELSE from

\* Lines of a content: an address first or last, no address, a stamp, a
\* syslog line, an address followed by a bracketed date, a blank line.
ContentLines ==
    { [indent |-> 0, tokens |-> <<IpToken, Word>>],
      [indent |-> 0, tokens |-> <<Word, IpToken>>],
      [indent |-> 4, tokens |-> <<Word, Word>>],
      [indent |-> 0, tokens |-> <<IsoStamp, Word>>],
      [indent |-> 0, tokens |-> <<IpToken, BracketDate, HttpRequest>>],
      GoodLine, BlanksLine }

ValidityContents == UNION { [1..n -> ContentLines] : n \in 1..MaxEdge }

\* One call of isValidLogContent.
IsValidLogContent(content) ==
    /\ Len(calls) < MaxCalls
    /\ \E r \in { isValidLogContent(content, lastIndex) } :
            /\ calls' = Append(calls, [fn |-> "isValidLogContent", content |-> content,
                                       result |-> r.result])
            /\ lastIndex' = r.lastIndex
    /\ UNCHANGED <<reputationCache, IP_REPUTATION_DB, apiKey, now, fnIn, fnOut, storeVars>>

\* One call of parseLogs.
ParseLogs(content) ==
    /\ lastIndex' = lastIndexAfterParseLogs(content, lastIndex)
    /\ fnOut' = [success |-> parseLogs(content).success]
    /\ UNCHANGED <<reputationCache, IP_REPUTATION_DB, apiKey, now, calls, fnIn, storeVars>>

NextValid ==
    \/ \E content \in ValidityContents : IsValidLogContent(content)
    \/ \E content \in ValidityContents : ParseLogs(content)

SpecValid == InitRep /\ [][NextValid]_vars

(***************************************************************************)
(* In-memory store (data-store.ts) and the ingestion endpoint              *)
(*                                                                         *)
(* A store is the record of the three maps and of the reputation database  *)
(* that the enrichment writes to.  A map gives Null for a user it has no   *)
(* entry for, else the record of the array.  A stored event carries its id, address, timestamp and the   *)
(* phrases of its message; an event whose message is not a string has the  *)
(* field messageType.                                                      *)
(***************************************************************************)

\* logs.get(userId) || []
Get(map, userId) == IF map[userId] = Null THEN <<>> ELSE map[userId].list

\* The entry of a map that holds an array.
Present(list) == [list |-> list]

SampleLog(name, ip, minutes, message) ==
    [id |-> [sample |-> name], sourceIp |-> ip, timestamp |-> DateOf(minutes),
     message |-> message]

\* generateSampleLogs; minutes count from 2025-01-16T10:00.
generateSampleLogs ==
    << SampleLog("log-1", <<192, 168, 1, 100>>, 30, {"failed password"}),
       SampleLog("log-1b", <<192, 168, 1, 100>>, 31, {"failed password"}),
       SampleLog("log-1c", <<192, 168, 1, 100>>, 32, {"invalid user"}),
       SampleLog("log-1d", <<192, 168, 1, 100>>, 33, {"authentication failure"}),
       SampleLog("log-1e", <<192, 168, 1, 100>>, 34, {"failed password"}),
       SampleLog("log-2", <<203, 0, 113, 45>>, 35, {"' or '1'='1"}),
       SampleLog("log-2b", <<203, 0, 113, 45>>, 36, {"union select", "/login", "login"}),
       SampleLog("log-3", <<45, 33, 32, 156>>, 40, {"wget", "backdoor"}),
       SampleLog("log-3b", <<45, 33, 32, 156>>, 41, {"base64 -d", "powershell"}),
       SampleLog("log-4", <<198, 51, 100, 50>>, 45, {"429", "too many requests", "rate limit"}),
       SampleLog("log-4b", <<198, 51, 100, 50>>, 46, {"service unavailable"}),
       SampleLog("log-4c", <<198, 51, 100, 50>>, 47, {"timeout"}),
       SampleLog("log-5", <<172, 16, 0, 100>>, 50, {"/login", "login", " 401 "}),
       SampleLog("log-5b", <<172, 16, 0, 100>>, 51, {"/signin", " 403 "}),
       SampleLog("log-5c", <<172, 16, 0, 100>>, 52, {"/login", "login", "/admin/login", " 401 "}),
       SampleLog("log-6", <<10, 0, 0, 50>>, 25, {}) >>

\* (l.message || l.rawLog || "").toLowerCase() raises on a message that is
\* not a string.
analyzeUserLogsRaises(userLogs) ==
    \E i \in 1..Len(userLogs) : "messageType" \in DOMAIN userLogs[i]

\* { ...t, enrichment: {...} }
Enriched(t, reputation) ==
    [f \in DOMAIN t \cup {"enrichment"} |-> IF f = "enrichment" THEN reputation ELSE t[f]]

RECURSIVE enrichFirst(_, _, _, _, _)
\* analyzed.map over the first n records: the new records and the database
\* after the lookups.
enrichFirst(analyzed, n, db, nowH, rnd) ==
    IF n = 0 THEN [threats |-> <<>>, db |-> db]
    ELSE Bind(enrichFirst(analyzed, n - 1, db, nowH, rnd), LAMBDA before :
         Bind(analyzeIpReputation(analyzed[n].ipAddress, before.db, nowH, rnd), LAMBDA looked :
            [threats |-> Append(before.threats,
                                Enriched(analyzed[n], looked.analysis.reputation)),
             db |-> looked.db]))

alertTypeMap(attackType) ==
    CASE attackType \in {"ssh_bruteforce", "web_bruteforce"} ->
            [type |-> "brute_force", severity |-> "high"]
      [] attackType = "sql_injection" -> [type |-> "sql_injection", severity |-> "critical"]
      [] attackType = "malware_suspicious_activity" -> [type |-> "malware", severity |-> "critical"]
      [] attackType = "ddos_attack" -> [type |-> "ddos_attack", severity |-> "critical"]
      [] OTHER -> [type |-> "suspicious_activity", severity |-> "medium"]

\* The alert built by createAlertFromThreat; its id is new among the
\* user's alerts, which are never removed.
createAlertFromThreat(userId, threat, attackType, userAlerts, nowH) ==
    [id |-> [at |-> nowH, serial |-> Len(userAlerts) + 1],
     userId |-> userId,
     alertType |-> alertTypeMap(attackType).type,
     severity |-> alertTypeMap(attackType).severity,
     title |-> attackType,
     sourceIp |-> threat.ipAddress,
     timestamp |-> threat.lastSeen,
     status |-> "new",
     threatId |-> threat.id,
     threatScore |-> threat.threatScore]

RECURSIVE attackPairs(_)
\* The (threat, attack type) pairs in the order the two forEach visit them.
attackPairs(userThreats) ==
    IF userThreats = <<>> THEN <<>>
    ELSE LET threat == userThreats[1]
         IN  [j \in 1..Len(threat.detectedAttackTypes) |->
                    [threat |-> threat, attackType |-> threat.detectedAttackTypes[j]]]
             \o attackPairs(Tail(userThreats))

RECURSIVE alertsAfter(_, _, _, _, _, _)
\* The user's alerts after the first n pairs.  alertExists looks at the
\* array read before the loop: the stored array, which the pushes extend,
\* or a new empty array when the map has no entry for the user.
alertsAfter(pairs, n, userId, stored, live, nowH) ==
    IF n = 0 THEN stored
    ELSE Bind(alertsAfter(pairs, n - 1, userId, stored, live, nowH), LAMBDA userAlerts :
            LET seen == IF live THEN userAlerts ELSE <<>>
                alertExists == \E i \in 1..Len(seen) :
                                /\ seen[i].threatId = pairs[n].threat.id
                                /\ seen[i].status = "new"
            IN  IF alertExists THEN userAlerts
                ELSE Append(userAlerts,
                            createAlertFromThreat(userId, pairs[n].threat, pairs[n].attackType,
                                                  userAlerts, nowH)))

\* generateAlertsFromThreats: the map of alerts afterwards.
generateAlertsFromThreats(alertsMap, userThreats, userId, nowH) ==
    Bind(attackPairs(userThreats), LAMBDA pairs :
    Bind(alertsAfter(pairs, Len(pairs), userId, Get(alertsMap, userId),
                     alertsMap[userId] # Null, nowH), LAMBDA after :
        IF after = Get(alertsMap, userId) THEN alertsMap
        ELSE [alertsMap EXCEPT ![userId] = Present(after)]))

\* analyzeLogsForThreats; raised tells that the analysis raised, before
\* threats.set.
analyzeLogsForThreats(st, userId, nowH, rnd) ==
    LET userLogs == Get(st.logs, userId)
    IN  IF analyzeUserLogsRaises(userLogs) THEN [st EXCEPT !.raised = TRUE]
        ELSE Bind(analyzeUserLogs(userLogs, userId), LAMBDA analyzed :
             Bind(enrichFirst(analyzed, Len(analyzed), st.db, nowH, rnd), LAMBDA new :
                [logs |-> st.logs,
                 threats |-> [st.threats EXCEPT ![userId] = Present(new.threats)],
                 alerts |-> generateAlertsFromThreats(st.alerts, new.threats, userId, nowH),
                 db |-> new.db,
                 raised |-> FALSE]))

\* addUserLogs: the ids are log-<Date.now()>-<index>.
addUserLogs(st, userId, newLogs, nowH, rnd) ==
    LET addedLogs == [i \in 1..Len(newLogs) |->
                        [f \in DOMAIN newLogs[i] \cup {"id"} |->
                            IF f = "id" THEN [at |-> nowH, index |-> i - 1]
                            ELSE newLogs[i][f]]]
    IN  Bind([st EXCEPT !.logs[userId] = Present(Get(st.logs, userId) \o addedLogs)],
             LAMBDA set : analyzeLogsForThreats(set, userId, nowH, rnd))

deleteUserLog(st, userId, logId, nowH, rnd) ==
    LET userLogs == Get(st.logs, userId)
        filtered == SelectSeq(userLogs, LAMBDA l : l.id # logId)
    IN  IF Len(filtered) < Len(userLogs)
        THEN Bind([st EXCEPT !.logs[userId] = Present(filtered)],
                  LAMBDA set : analyzeLogsForThreats(set, userId, nowH, rnd))
        ELSE st

\* A clearing that empties the events and threats of every user.
clearUserLogs_Everyone(st, userId) ==
    [st EXCEPT !.logs = [o \in DOMAIN st.logs |-> Present(<<>>)],
               !.threats = [o \in DOMAIN st.threats |-> Present(<<>>)]]

\* clearUserLogs.  The map events of data-store.ts is only ever set to an
\* empty array for a user and is never read; it is left out.
clearUserLogs(st, userId) ==
    [st EXCEPT !.logs[userId] = Present(<<>>), !.threats[userId] = Present(<<>>)]

createUser(st, userId) ==
    [st EXCEPT !.logs[userId] = Present(<<>>), !.threats[userId] = Present(<<>>),
               !.alerts[userId] = Present(<<>>)]

\* array.find: the index of the first element with the id, 0 when none.
find(list, id) ==
    IF \E i \in 1..Len(list) : list[i].id = id
    THEN CHOOSE i \in 1..Len(list) :
            list[i].id = id /\ \A j \in 1..(i - 1) : list[j].id # id
    ELSE 0

\* updateThreatStatus: the record found is changed in place, in the array
\* the map holds; found is the boolean returned.
updateThreatStatus(st, userId, threatId, status) ==
    LET userThreats == Get(st.threats, userId)
        threat == find(userThreats, threatId)
    IN  IF threat # 0
        THEN [store |-> [st EXCEPT !.threats[userId] =
                            Present([userThreats EXCEPT ![threat].status = status])],
              found |-> TRUE]
        ELSE [store |-> st, found |-> FALSE]

\* updateAlertStatus: the alert found is changed in place.
updateAlertStatus(st, userId, alertId, status) ==
    LET userAlerts == Get(st.alerts, userId)
        alert == find(userAlerts, alertId)
    IN  IF alert # 0
        THEN [st EXCEPT !.alerts[userId] =
                    Present([userAlerts EXCEPT ![alert].status = status])]
        ELSE st

\* dismissAlert
dismissAlert(st, userId, alertId) == updateAlertStatus(st, userId, alertId, "resolved")

\* The store of the current state.
Store ==
    [logs |-> logsByUser, threats |-> threatsByUser, alerts |-> alertsByUser,
     db |-> IP_REPUTATION_DB, raised |-> FALSE]

\* The maps become those of st.
Becomes(st) ==
    /\ logsByUser' = st.logs
    /\ threatsByUser' = st.threats
    /\ alertsByUser' = st.alerts
    /\ IP_REPUTATION_DB' = st.db

\* initializeStore, run when the module loads: the demo user, the sample
\* events and their analysis.
initializeStore(rnd) ==
    analyzeLogsForThreats(
        [logs |-> [o \in Owners |->
                        IF o = "demo-user-1" THEN Present(generateSampleLogs) ELSE Null],
         threats |-> [o \in Owners |-> IF o = "demo-user-1" THEN Present(<<>>) ELSE Null],
         alerts |-> [o \in Owners |-> IF o = "demo-user-1" THEN Present(<<>>) ELSE Null],
         db |-> InitialReputationDb,
         raised |-> FALSE],
        "demo-user-1", 0, rnd)

(***************************************************************************)
(* POST /api/ingest                                                        *)
(***************************************************************************)

\* The octets of an address of the parser.
Octets(sourceIp) == IF sourceIp = IpToken THEN <<10, 0, 0, 5>> ELSE ZeroIp

\* The phrases of the scanners that the text of a token includes.
PhrasesIn(token) ==
    IF token = HttpRequest THEN {"/login", "login", " 401 "}
    ELSE IF token = MacUnifiedHeader THEN {"0x"}
    ELSE {}

\* A parsed entry as the store and the analysis see it.  The lines posted
\* in the model are JSON and free-text lines, which the parser stamps with
\* the time of parsing.
LogEntry(parsed, nowH) ==
    IF parsed.message = NotAString
    THEN [sourceIp |-> Octets(parsed.sourceIp), timestamp |-> DateOf(1000 + 60 * nowH),
          message |-> {}, messageType |-> "number"]
    ELSE [sourceIp |-> Octets(parsed.sourceIp), timestamp |-> DateOf(1000 + 60 * nowH),
          message |-> UNION { PhrasesIn(parsed.message.text[i]) :
                                i \in 1..Len(parsed.message.text) }]

\* The response of a rejection, which returns before the store is touched.
Rejected(status, message, st) == [status |-> status, message |-> message, store |-> st]

\* The userId of a request: the x-user-id header, else the userId of a
\* JSON body.
UserOf(req) ==
    IF req.header # "" THEN req.header
    ELSE IF req.contentType = "application/json" THEN req.bodyUser ELSE ""

\* !rawText || !rawText.trim()
NoContent(rawText) ==
    rawText = Null \/ \A i \in 1..Len(rawText.lines) : IsBlank(rawText.lines[i])

\* addUserLogs(userId, parseResult.entries) and the response that follows;
\* the catch answers 500 when the analysis raises.
Accepted(st, userId, parseResult, nowH, rnd) ==
    Bind(addUserLogs(st, userId,
                     [i \in 1..Len(parseResult.entries) |->
                            LogEntry(parseResult.entries[i], nowH)],
                     nowH, rnd),
         LAMBDA added :
            IF added.raised
            THEN [status |-> 500, message |-> "Internal error", store |-> added]
            ELSE [status |-> 200, message |-> "", store |-> added])

\* A handler that looks the user up after it has stored the entries.
POST_LateUserCheck(st, knownUsers, req, nowH, rnd) ==
    IF req.contentType \notin {"application/json", "text/plain"}
    THEN Rejected(415, "Unsupported content type", st)
    ELSE IF UserOf(req) = "" THEN Rejected(400, "Missing userId", st)
    ELSE IF NoContent(req.text) THEN Rejected(400, "No log content provided", st)
    ELSE IF ~parseLogs(req.text.lines).success THEN Rejected(400, "Failed to parse logs", st)
    ELSE IF UserOf(req) \notin Owners THEN Rejected(404, "User not found", st)
    ELSE Bind(Accepted(st, UserOf(req), parseLogs(req.text.lines), nowH, rnd),
              LAMBDA response :
                IF UserOf(req) \in knownUsers THEN response
                ELSE Rejected(404, "User not found", response.store))

\* The handler: the status and message of the response and the store
\* afterwards.  A request holds its content type, the x-user-id header, the
\* userId of a JSON body ("" when absent) and the lines of the raw text
\* (Null when the body holds neither logs nor content).
POST(st, knownUsers, req, nowH, rnd) ==
    IF req.contentType \notin {"application/json", "text/plain"}
    THEN Rejected(415, "Unsupported content type", st)
    ELSE IF UserOf(req) = "" THEN Rejected(400, "Missing userId", st)
    ELSE IF UserOf(req) \notin knownUsers THEN Rejected(404, "User not found", st)
    ELSE IF NoContent(req.text) THEN Rejected(400, "No log content provided", st)
    ELSE IF ~parseLogs(req.text.lines).success THEN Rejected(400, "Failed to parse logs", st)
    ELSE Accepted(st, UserOf(req), parseLogs(req.text.lines), nowH, rnd)

(***************************************************************************)
(* The store as a state machine                                            *)
(***************************************************************************)

\* JSON lines with a level, with and without a numeric message, and a
\* free-text line with an address.
LevelLine == [indent |-> 0, tokens |-> <<OpenBrace, JsonMemberLevel, CloseBrace>>]
NumberLevelLine == [indent |-> 0, tokens |-> <<OpenBrace, JsonMembersNumberLevel, CloseBrace>>]
FreeLine == [indent |-> 0, tokens |-> <<HttpRequest, IpToken>>]

\* Texts uploaded or posted: empty, blank, without a parseable line, and
\* with parseable lines.
PostedTexts ==
    { <<EmptyLine>>, <<BlanksLine>>, <<ShortLine, BadLine>>, <<LevelLine>>,
      <<FreeLine, ShortLine>>, <<NumberLevelLine>> }

\* Entries handed to addUserLogs: two typed lists, and the entries the
\* upload form passes on when parseLogs succeeds on its text.
NewLogs(nowH) ==
    { << [sourceIp |-> <<10, 0, 0, 50>>, timestamp |-> DateOf(60), message |-> {"wget"}] >>,
      << [sourceIp |-> <<45, 33, 32, 156>>, timestamp |-> DateOf(20),
          message |-> {"failed password"}],
         [sourceIp |-> <<10, 0, 0, 5>>, timestamp |-> DateOf(61), message |-> {}] >> }
    \cup { [i \in 1..Len(parseLogs(t).entries) |-> LogEntry(parseLogs(t).entries[i], nowH)] :
            t \in { u \in PostedTexts : parseLogs(u).success } }

\* Ids a deletion is asked for: the first and the last event of the user,
\* and an id no event has.
LogIds(userId) ==
    LET userLogs == Get(logsByUser, userId)
    IN  { userLogs[i].id : i \in {1, Len(userLogs)} \cap DOMAIN userLogs }
        \cup { [sample |-> "log-0"] }

\* Requests: every content type and identity with one parseable text, and
\* every text, or none, from the demo user.
Requests ==
    [contentType : {"application/json", "text/plain", "text/csv"},
     header : {"", "demo-user-1", "ghost"},
     bodyUser : {"", "user-2"},
     text : {[lines |-> <<LevelLine>>]}]
    \cup
    [contentType : {"application/json"},
     header : {"demo-user-1"},
     bodyUser : {""},
     text : {Null} \cup { [lines |-> t] : t \in PostedTexts }]

InitStore ==
    /\ \E rnd \in RandomDraws :
          LET st == initializeStore(rnd)
          IN  /\ logsByUser = st.logs
              /\ threatsByUser = st.threats
              /\ alertsByUser = st.alerts
              /\ IP_REPUTATION_DB = st.db
    /\ users = {"demo-user-1"}
    /\ ops = 0
    /\ reputationCache = [ip \in Addrs |-> Null]
    /\ apiKey = FALSE
    /\ now = 0
    /\ calls = <<>>
    /\ fnIn = Null /\ fnOut = Null
    /\ lastIndex = 0

\* Signup: a user with a new id.
CreateUser(userId) ==
    /\ ops < MaxOps /\ userId \notin users
    /\ users' = users \cup {userId}
    /\ Becomes(createUser(Store, userId))
    /\ ops' = ops + 1
    /\ fnOut' = [op |-> "createUser", userId |-> userId]
    /\ UNCHANGED <<reputationCache, apiKey, now, calls, fnIn, lastIndex>>

AddUserLogs(userId, newLogs, rnd) ==
    /\ ops < MaxOps
    /\ LET st == addUserLogs(Store, userId, newLogs, now, rnd)
       IN  /\ Becomes(st)
           /\ fnOut' = [op |-> "addUserLogs", userId |-> userId, raised |-> st.raised,
                        added |-> Len(newLogs)]
    /\ ops' = ops + 1
    /\ UNCHANGED <<users, reputationCache, apiKey, now, calls, fnIn, lastIndex>>

DeleteUserLog(userId, logId, rnd) ==
    /\ ops < MaxOps
    /\ LET st == deleteUserLog(Store, userId, logId, now, rnd)
       IN  /\ Becomes(st)
           /\ fnOut' = [op |-> "deleteUserLog", userId |-> userId, raised |-> st.raised,
                        removed |-> (st.logs # logsByUser)]
    /\ ops' = ops + 1
    /\ UNCHANGED <<users, reputationCache, apiKey, now, calls, fnIn, lastIndex>>

ClearUserLogs(userId) ==
    /\ ops < MaxOps
    /\ Becomes(clearUserLogs(Store, userId))
    /\ ops' = ops + 1
    /\ fnOut' = [op |-> "clearUserLogs", userId |-> userId]
    /\ UNCHANGED <<users, reputationCache, apiKey, now, calls, fnIn, lastIndex>>

\* One request to POST /api/ingest.  parseLogs leaves IP_PATTERN.lastIndex
\* as it was or at 0, which it is in every state of this specification.
Ingest(req, rnd) ==
    /\ ops < MaxOps
    /\ LET response == POST(Store, users, req, now, rnd)
       IN  /\ Becomes(response.store)
           /\ fnOut' = [op |-> "POST", status |-> response.status,
                        message |-> response.message]
    /\ ops' = ops + 1
    /\ UNCHANGED <<users, reputationCache, apiKey, now, calls, fnIn, lastIndex>>

\* Ids a status change is asked for: the first and the last record of the
\* user, and an id no record has.
RecordIds(map, userId) ==
    LET list == Get(map, userId)
    IN  { list[i].id : i \in {1, Len(list)} \cap DOMAIN list } \cup { [sample |-> "none"] }

UpdateThreatStatus(userId, threatId, status) ==
    /\ ops < MaxOps
    /\ LET updated == updateThreatStatus(Store, userId, threatId, status)
       IN  /\ Becomes(updated.store)
           /\ fnOut' = [op |-> "updateThreatStatus", userId |-> userId,
                        found |-> updated.found]
    /\ ops' = ops + 1
    /\ UNCHANGED <<users, reputationCache, apiKey, now, calls, fnIn, lastIndex>>

\* The alerts page: updateAlertStatus with acknowledged or resolved.
UpdateAlertStatus(userId, alertId, status) ==
    /\ ops < MaxOps
    /\ Becomes(updateAlertStatus(Store, userId, alertId, status))
    /\ ops' = ops + 1
    /\ fnOut' = [op |-> "updateAlertStatus", userId |-> userId,
                 found |-> (find(Get(alertsByUser, userId), alertId) # 0)]
    /\ UNCHANGED <<users, reputationCache, apiKey, now, calls, fnIn, lastIndex>>

\* generateAlertsFromThreats called by itself, as the module exports it.
GenerateAlertsFromThreats(userId) ==
    /\ ops < MaxOps
    /\ alertsByUser' = generateAlertsFromThreats(alertsByUser, Get(threatsByUser, userId),
                                                 userId, now)
    /\ ops' = ops + 1
    /\ fnOut' = [op |-> "generateAlertsFromThreats", userId |-> userId]
    /\ UNCHANGED <<users, logsByUser, threatsByUser, repVars, fnIn, lastIndex>>

NextStore ==
    \/ \E userId \in Owners : CreateUser(userId)
    \/ \E userId \in Owners, rnd \in RandomDraws :
            \E newLogs \in NewLogs(now) : AddUserLogs(userId, newLogs, rnd)
    \/ \E userId \in Owners :
            \E logId \in LogIds(userId) : DeleteUserLog(userId, logId, BatchDraw)
    \/ \E userId \in Owners : ClearUserLogs(userId)
    \/ \E req \in Requests : Ingest(req, BatchDraw)
    \/ \E userId \in Owners, status \in {"resolved", "false_positive"} :
            \E threatId \in RecordIds(threatsByUser, userId) :
                UpdateThreatStatus(userId, threatId, status)
    \/ \E userId \in Owners, status \in {"acknowledged", "resolved"} :
            \E alertId \in RecordIds(alertsByUser, userId) :
                UpdateAlertStatus(userId, alertId, status)
    \/ \E userId \in Owners : GenerateAlertsFromThreats(userId)
    \/ now = 0 /\ Tick

SpecStore == InitStore /\ [][NextStore]_vars

(***************************************************************************)
(* Recommendations of a fused threat (convertToThreatIntelligence)         *)
(*                                                                         *)
(* A recommendation is a string: the sequence of its characters.           *)
(***************************************************************************)

UpperCase == <<"A", "B", "C", "K", "L", "N", "O", "S">>
LowerCase == <<"a", "b", "c", "k", "l", "n", "o", "s">>

\* String.prototype.toLowerCase, character by character.
toLowerCase(string) ==
    [i \in 1..Len(string) |->
        IF \E k \in 1..Len(UpperCase) : UpperCase[k] = string[i]
        THEN LowerCase[CHOOSE k \in 1..Len(UpperCase) : UpperCase[k] = string[i]]
        ELSE string[i]]

SampleRecommendations ==
    { <<"B", "l", "o", "c", "k">>, <<"b", "l", "o", "c", "k">>, <<"B", "L", "O", "C", "K">>,
      <<"S", "c", "a", "n">>, <<"s", "c", "a", "n">> }

\* The recommendations of convertToThreatIntelligence: the base list, then
\* the reputation-derived entries that equal no base entry ignoring case.
mergeRecommendations(analysisRecommendations, reputationRecommendations) ==
    analysisRecommendations
        \o SelectSeq(reputationRecommendations,
                     LAMBDA rec :
                        ~ \E i \in 1..Len(analysisRecommendations) :
                            toLowerCase(analysisRecommendations[i]) = toLowerCase(rec))

RecommendationLists == UNION { [1..n -> SampleRecommendations] : n \in 0..MaxRecs }

InitMerge ==
    /\ fnIn \in [analysis : RecommendationLists, reputation : RecommendationLists]
    /\ fnOut = Null
    /\ reputationCache = [ip \in Addrs |-> Null]
    /\ IP_REPUTATION_DB = InitialReputationDb
    /\ apiKey = FALSE
    /\ now = 0
    /\ calls = <<>>
    /\ StoreNotLoaded
    /\ lastIndex = 0

ApplyMergeRecommendations ==
    /\ fnOut = Null
    /\ fnOut' = [recommendations |-> mergeRecommendations(fnIn.analysis, fnIn.reputation)]
    /\ UNCHANGED <<fnIn, repVars, storeVars, lastIndex>>

NextMerge == ApplyMergeRecommendations

SpecMerge == InitMerge /\ [][NextMerge]_vars

(***************************************************************************)
(* Detection methods (advanced-threat-detection.ts)                        *)
(*                                                                         *)
(* A text is the string together with what the expressions of              *)
(* ATTACK_PATTERNS and the endpoint expression find in it.  A timestamp is *)
(* a number of milliseconds.  A description is its template and the number *)
(* quoted in it.                                                           *)
(***************************************************************************)

NoText == [string |-> "", matches |-> {}, endpoint |-> ""]

FailedPasswordText ==
    [string |-> "Failed password for root from 10.0.0.5 port 22 ssh2",
     matches |-> {"SSH_BRUTE_FORCE", "PRIVILEGE_ESCALATION"}, endpoint |-> ""]
PermissionDeniedText ==
    [string |-> "Permission denied (publickey)",
     matches |-> {"SSH_BRUTE_FORCE", "UNAUTHORIZED_ACCESS"}, endpoint |-> ""]
InvalidUserText ==
    [string |-> "Invalid user admin from 10.0.0.5",
     matches |-> {"SSH_BRUTE_FORCE"}, endpoint |-> ""]
SearchInjectionText ==
    [string |-> "GET /search?q=' OR '1'='1 HTTP/1.1 403",
     matches |-> {"SQL_INJECTION", "UNAUTHORIZED_ACCESS"}, endpoint |-> "/search?q='"]
LoginInjectionText ==
    [string |-> "POST /login.php UNION SELECT password",
     matches |-> {"SQL_INJECTION", "WEB_SHELL_UPLOAD"}, endpoint |-> "/login.php"]

\* l.message || l.rawLog || ""
TextOf(l) ==
    IF l.message # NoText THEN l.message ELSE IF l.rawLog # NoText THEN l.rawLog ELSE NoText

\* ATTACK_PATTERNS[name].test(l.message || l.rawLog || "")
Test(name, l) == name \in TextOf(l).matches

\* matches.slice(0, n).map((l) => l.message || l.rawLog || "")
Evidence(matched, n) == [i \in 1..Min(n, Len(matched)) |-> TextOf(matched[i]).string]

Finding(method, confidence, description, evidence) ==
    [method |-> method, confidence |-> confidence, description |-> description,
     evidence |-> evidence]

\* The finding pushed when the condition holds.
PushIf(condition, finding) == IF condition THEN <<finding>> ELSE <<>>

detectByPatterns(logEntries) ==
    LET sshBruteForceMatches ==
            SelectSeq(logEntries, LAMBDA l : l.logType = "auth" /\ Test("SSH_BRUTE_FORCE", l))
        sqlInjectionMatches == SelectSeq(logEntries, LAMBDA l : Test("SQL_INJECTION", l))
        malwareMatches == SelectSeq(logEntries, LAMBDA l : Test("MALWARE_INDICATORS", l))
        ddosMatches == SelectSeq(logEntries, LAMBDA l : Test("DDOS_ATTACK", l))
        webShellMatches == SelectSeq(logEntries, LAMBDA l : Test("WEB_SHELL_UPLOAD", l))
        privEscMatches ==
            SelectSeq(logEntries, LAMBDA l : l.logType = "auth" /\ Test("PRIVILEGE_ESCALATION", l))
    IN  PushIf(Len(sshBruteForceMatches) >= 3,
               Finding("SSH Brute Force Pattern Detection",
                       Min(80 + Len(sshBruteForceMatches) * 5, 99),
                       [template |-> "Detected ${n} SSH authentication failures matching known brute force patterns",
                        n |-> Len(sshBruteForceMatches)],
                       Evidence(sshBruteForceMatches, 3)))
        \o PushIf(Len(sqlInjectionMatches) > 0,
               Finding("SQL Injection Signature Detection",
                       Min(85 + Len(sqlInjectionMatches) * 10, 99),
                       [template |-> "Detected ${n} SQL injection attack signatures in logs",
                        n |-> Len(sqlInjectionMatches)],
                       Evidence(sqlInjectionMatches, 2)))
        \o PushIf(Len(malwareMatches) > 0,
               Finding("Malware Indicators Detection",
                       Min(75 + Len(malwareMatches) * 8, 98),
                       [template |-> "Detected ${n} suspicious commands associated with malware behavior",
                        n |-> Len(malwareMatches)],
                       Evidence(malwareMatches, 2)))
        \o PushIf(Len(ddosMatches) > 0,
               Finding("DDoS Attack Pattern Detection",
                       Min(70 + Len(ddosMatches) * 5, 95),
                       [template |-> "Detected ${n} indicators of distributed denial of service attacks",
                        n |-> Len(ddosMatches)],
                       Evidence(ddosMatches, 2)))
        \o PushIf(Len(webShellMatches) > 0,
               Finding("Web Shell Upload Detection",
                       Min(80 + Len(webShellMatches) * 10, 99),
                       [template |-> "Detected ${n} suspicious file uploads matching web shell patterns",
                        n |-> Len(webShellMatches)],
                       Evidence(webShellMatches, 2)))
        \o PushIf(Len(privEscMatches) >= 2,
               Finding("Privilege Escalation Attempt Detection",
                       Min(70 + Len(privEscMatches) * 5, 90),
                       [template |-> "Detected ${n} attempts to escalate privileges",
                        n |-> Len(privEscMatches)],
                       Evidence(privEscMatches, 2)))

HourMs == 3600000

\* Math.min and Math.max over the timestamps of a non-empty list.
EarliestOf(logEntries) ==
    CHOOSE t \in { logEntries[i].timestamp : i \in 1..Len(logEntries) } :
        \A i \in 1..Len(logEntries) : t <= logEntries[i].timestamp
LatestOf(logEntries) ==
    CHOOSE t \in { logEntries[i].timestamp : i \in 1..Len(logEntries) } :
        \A i \in 1..Len(logEntries) : t >= logEntries[i].timestamp

\* detectAnomalies without a baseline: 10 requests an hour, 2 failures a day.
\* Rates are compared as fractions; the logarithm in the confidence of the
\* rate finding is kept as the ratio it is taken of.
detectAnomalies(logEntries) ==
    IF Len(logEntries) = 0 THEN <<>>
    ELSE
    LET spanMs == Max(LatestOf(logEntries) - EarliestOf(logEntries), HourMs)
        baselineRate == 10
        errorCount ==
            Len(SelectSeq(logEntries, LAMBDA l : l.severity \in {"error", "critical"}))
        failedAuthLogs ==
            SelectSeq(logEntries,
                      LAMBDA l : l.logType = "auth" /\ Test("UNAUTHORIZED_ACCESS", l))
        baselineFailedAuth == 2
    IN  PushIf(Len(logEntries) * HourMs > baselineRate * 3 * spanMs,
               Finding("Request Rate Anomaly Detection",
                       [min |-> 90, logOf |-> <<Len(logEntries) * HourMs, baselineRate * spanMs>>],
                       [template |-> "Unusually high request rate detected: ${n} requests/hour (baseline: 10)",
                        n |-> RoundDiv(Len(logEntries) * HourMs, spanMs)],
                       << [template |-> "Rate spike: ${n}x normal traffic",
                           n |-> RoundDiv(Len(logEntries) * HourMs, baselineRate * spanMs)] >>))
        \o PushIf(10 * errorCount > 3 * Len(logEntries),
               Finding("Error Rate Anomaly Detection",
                       [num |-> Min(50 * Len(logEntries) + 50 * errorCount, 85 * Len(logEntries)),
                        den |-> Len(logEntries)],
                       [template |-> "Elevated error rate detected: ${n}% of logs are errors",
                        n |-> [num |-> 100 * errorCount, den |-> Len(logEntries)]],
                       << [template |-> "${n} error logs out of ${m}",
                           n |-> errorCount, m |-> Len(logEntries)],
                          [template |-> "Baseline error rate typically < 10%"] >>))
        \o PushIf(Len(failedAuthLogs) > baselineFailedAuth * 2,
               Finding("Failed Authentication Spike Detection",
                       Min(70 + Len(failedAuthLogs) * 5, 95),
                       [template |-> "Spike in failed authentication attempts: ${n} failures detected",
                        n |-> Len(failedAuthLogs)],
                       Evidence(failedAuthLogs, 3)))

\* log.timestamp.getHours()
HourOf(timestamp) == (timestamp \div HourMs) % 24

\* The elements of a set of numbers in ascending order: Object.entries of
\* an object with integer keys.
RECURSIVE Ascending(_)
Ascending(numbers) ==
    IF numbers = {} THEN <<>>
    ELSE LET least == CHOOSE n \in numbers : \A m \in numbers : n <= m
         IN  <<least>> \o Ascending(numbers \ {least})

\* [...logEntries].sort((a, b) => a.timestamp.getTime() - b.timestamp.getTime()):
\* a stable sort of a copy.
RECURSIVE SortedByTime(_)
SortedByTime(logEntries) ==
    IF logEntries = <<>> THEN <<>>
    ELSE LET rest == SortedByTime(SubSeq(logEntries, 1, Len(logEntries) - 1))
             last == logEntries[Len(logEntries)]
             kept == Cardinality({ i \in 1..Len(rest) : rest[i].timestamp <= last.timestamp })
         IN  SubSeq(rest, 1, kept) \o <<last>> \o SubSeq(rest, kept + 1, Len(rest))

detectTemporalPatterns(logEntries) ==
    IF Len(logEntries) < 5 THEN <<>>
    ELSE
    LET hoursSeen == { HourOf(logEntries[i].timestamp) : i \in 1..Len(logEntries) }
        byHour == [hour \in hoursSeen |->
                    Cardinality({ i \in 1..Len(logEntries) :
                                    HourOf(logEntries[i].timestamp) = hour })]
        \* count > avgPerHour * 3, with avgPerHour = length / number of hours
        peakHours == Ascending({ hour \in hoursSeen :
                                    byHour[hour] * Cardinality(hoursSeen) > 3 * Len(logEntries) })
        sorted == SortedByTime(logEntries)
        rapidSuccessionCount ==
            Cardinality({ i \in 2..Min(Len(sorted), 20) :
                            sorted[i].timestamp - sorted[i - 1].timestamp < 1000 })
    IN  PushIf(Len(peakHours) > 0 /\ Len(peakHours) <= 2,
               Finding("Concentrated Attack Window Detection", 65,
                       [template |-> "Attack activity concentrated in specific time window(s) - characteristic of automated attacks"],
                       [i \in 1..Len(peakHours) |->
                            [template |-> "${n} events at hour ${m}:00",
                             n |-> byHour[peakHours[i]], m |-> peakHours[i]]]))
        \o PushIf(rapidSuccessionCount >= 3,
               Finding("Rapid-Fire Event Detection", 75,
                       [template |-> "Detected ${n} events occurring in rapid succession (< 1 second apart)",
                        n |-> rapidSuccessionCount],
                       << [template |-> "Rapid event sequence matches automated/scripted attack behavior"],
                          [template |-> "Manual user activity typically has > 1 second gaps"] >>))

detectSeverityEscalation(logEntries) ==
    IF Len(logEntries) < 3 THEN <<>>
    ELSE
    LET severityCount ==
            [severity \in {"info", "warning", "error", "critical"} |->
                Len(SelectSeq(logEntries, LAMBDA l : l.severity = severity))]
    IN  IF severityCount["critical"] > 0
        THEN << Finding("Critical Severity Escalation Detection", 85,
                        [template |-> "Escalation to CRITICAL severity detected - indicates severe system compromise or attack"],
                        << [template |-> "${n} CRITICAL level events",
                            n |-> severityCount["critical"]] >>
                        \o PushIf(severityCount["error"] > 0,
                                  [template |-> "Progressive escalation from ERROR (${n}) to CRITICAL",
                                   n |-> severityCount["error"]])) >>
        ELSE PushIf(severityCount["error"] > 0,
                    Finding("Error Level Escalation Detection", 70,
                            [template |-> "Multiple ERROR level events indicate system issues or attack progression"],
                            << [template |-> "${n} ERROR level events detected",
                                n |-> severityCount["error"]] >>))

detectCorrelations(logEntries) ==
    LET uniqueIPs == { logEntries[i].sourceIp : i \in 1..Len(logEntries) }
        uniqueEndpoints ==
            { TextOf(logEntries[i]).endpoint : i \in 1..Len(logEntries) } \ {""}
        attackTypeCount ==
            Cardinality({ name \in {"SSH_BRUTE_FORCE", "SQL_INJECTION", "MALWARE_INDICATORS"} :
                            Len(SelectSeq(logEntries, LAMBDA l : Test(name, l))) > 0 })
    IN  PushIf(Cardinality(uniqueIPs) >= 5 /\ Cardinality(uniqueEndpoints) <= 3,
               Finding("Distributed Attack Correlation Detection", 75,
                       [template |-> "Multiple source IPs (${n}) targeting same endpoint(s) - indicates coordinated attack",
                        n |-> Cardinality(uniqueIPs)],
                       << [template |-> "${n} unique source IPs detected",
                           n |-> Cardinality(uniqueIPs)],
                          [template |-> "${n} unique target endpoint(s)",
                           n |-> Cardinality(uniqueEndpoints)],
                          [template |-> "Pattern matches distributed attack signatures"] >>))
        \o PushIf(attackTypeCount >= 2,
               Finding("Multi-Vector Attack Detection", 80,
                       [template |-> "Multiple attack vectors detected in same incident - suggests sophisticated attacker"],
                       << [template |-> "Brute force + SQL injection detected"] >>
                       \o PushIf(attackTypeCount >= 3,
                                 [template |-> "All three attack types present"])))

\* Events a slice is drawn from: SSH failures of category auth, one of them
\* also an access denial; an SSH failure of category system that has only
\* its raw line; two injections, one an hour later.
DetectorEvents ==
    { [sourceIp |-> <<10, 0, 0, 5>>, logType |-> "auth", severity |-> "warning",
       timestamp |-> 0, message |-> FailedPasswordText, rawLog |-> FailedPasswordText],
      [sourceIp |-> <<10, 0, 0, 6>>, logType |-> "auth", severity |-> "error",
       timestamp |-> 400, message |-> PermissionDeniedText, rawLog |-> PermissionDeniedText],
      [sourceIp |-> <<10, 0, 0, 7>>, logType |-> "system", severity |-> "info",
       timestamp |-> 800, message |-> NoText, rawLog |-> InvalidUserText],
      [sourceIp |-> <<10, 0, 0, 8>>, logType |-> "application", severity |-> "critical",
       timestamp |-> HourMs, message |-> SearchInjectionText, rawLog |-> SearchInjectionText],
      [sourceIp |-> <<10, 0, 0, 9>>, logType |-> "application", severity |-> "warning",
       timestamp |-> 1200, message |-> LoginInjectionText, rawLog |-> LoginInjectionText] }

Slices == UNION { [1..n -> DetectorEvents] : n \in 0..MaxSlice }

\* The list with the entries at i and i + 1 exchanged.
Exchanged(logEntries, i) ==
    [k \in 1..Len(logEntries) |->
        IF k = i THEN logEntries[i + 1] ELSE IF k = i + 1 THEN logEntries[i] ELSE logEntries[k]]

\* The same events in another order: two neighbours exchanged.
Reorderings(logEntries) ==
    IF Len(logEntries) < 2 THEN {logEntries}
    ELSE { Exchanged(logEntries, i) : i \in 1..(Len(logEntries) - 1) }

InitDetect ==
    /\ fnIn \in { [logs |-> slice] : slice \in Slices }
    /\ fnOut = Null
    /\ reputationCache = [ip \in Addrs |-> Null]
    /\ IP_REPUTATION_DB = InitialReputationDb
    /\ apiKey = FALSE
    /\ now = 0
    /\ calls = <<>>
    /\ StoreNotLoaded
    /\ lastIndex = 0

\* One method on the slice and on a reordering of it; logEntries is the
\* argument after the call.  No method assigns to its argument or to an
\* entry; the temporal method sorts a copy.
ApplyDetectByPatterns ==
    /\ fnOut = Null
    /\ \E reordering \in Reorderings(fnIn.logs) :
            fnOut' = [fn |-> "detectByPatterns",
                      findings |-> detectByPatterns(fnIn.logs),
                      reordered |-> detectByPatterns(reordering),
                      logEntries |-> fnIn.logs]
    /\ UNCHANGED <<fnIn, repVars, storeVars, lastIndex>>

ApplyDetectAnomalies ==
    /\ fnOut = Null
    /\ \E reordering \in Reorderings(fnIn.logs) :
            fnOut' = [fn |-> "detectAnomalies",
                      findings |-> detectAnomalies(fnIn.logs),
                      reordered |-> detectAnomalies(reordering),
                      logEntries |-> fnIn.logs]
    /\ UNCHANGED <<fnIn, repVars, storeVars, lastIndex>>

ApplyDetectTemporalPatterns ==
    /\ fnOut = Null
    /\ \E reordering \in Reorderings(fnIn.logs) :
            fnOut' = [fn |-> "detectTemporalPatterns",
                      findings |-> detectTemporalPatterns(fnIn.logs),
                      reordered |-> detectTemporalPatterns(reordering),
                      logEntries |-> fnIn.logs]
    /\ UNCHANGED <<fnIn, repVars, storeVars, lastIndex>>

ApplyDetectSeverityEscalation ==
    /\ fnOut = Null
    /\ \E reordering \in Reorderings(fnIn.logs) :
            fnOut' = [fn |-> "detectSeverityEscalation",
                      findings |-> detectSeverityEscalation(fnIn.logs),
                      reordered |-> detectSeverityEscalation(reordering),
                      logEntries |-> fnIn.logs]
    /\ UNCHANGED <<fnIn, repVars, storeVars, lastIndex>>

ApplyDetectCorrelations ==
    /\ fnOut = Null
    /\ \E reordering \in Reorderings(fnIn.logs) :
            fnOut' = [fn |-> "detectCorrelations",
                      findings |-> detectCorrelations(fnIn.logs),
                      reordered |-> detectCorrelations(reordering),
                      logEntries |-> fnIn.logs]
    /\ UNCHANGED <<fnIn, repVars, storeVars, lastIndex>>

NextDetect ==
    \/ ApplyDetectByPatterns
    \/ ApplyDetectAnomalies
    \/ ApplyDetectTemporalPatterns
    \/ ApplyDetectSeverityEscalation
    \/ ApplyDetectCorrelations

SpecDetect == InitDetect /\ [][NextDetect]_vars

(***************************************************************************)
(* The full pipeline (performAdvancedThreatAnalysis)                       *)
(***************************************************************************)

\* log.sourceIp || "0.0.0.0"
GroupKey(log) == IF log.sourceIp = EmptyIp THEN ZeroIp ELSE log.sourceIp

RECURSIVE groupKeys(_, _)
\* The keys of logsByIP after the first n events, in insertion order.
groupKeys(logEntries, n) ==
    IF n = 0 THEN <<>>
    ELSE Bind(groupKeys(logEntries, n - 1), LAMBDA keys :
            IF \E k \in 1..Len(keys) : keys[k] = GroupKey(logEntries[n]) THEN keys
            ELSE Append(keys, GroupKey(logEntries[n])))

\* logsByIP.get(ip): the events of the key, in the order of the list.
ipLogsOf(logEntries, ip) == SelectSeq(logEntries, LAMBDA log : GroupKey(log) = ip)

\* A pipeline that hands the whole list to the correlation method.
performAdvancedThreatAnalysis_Ungrouped(logEntries) ==
    Bind(groupKeys(logEntries, Len(logEntries)), LAMBDA keys :
        [k \in 1..Len(keys) |->
            Bind(ipLogsOf(logEntries, keys[k]), LAMBDA ipLogs :
                [ip |-> keys[k],
                 riskFactors |-> detectByPatterns(ipLogs) \o detectAnomalies(ipLogs)
                                 \o detectTemporalPatterns(ipLogs)
                                 \o detectSeverityEscalation(ipLogs)
                                 \o detectCorrelations(logEntries)])])

\* performAdvancedThreatAnalysis: the entries of analysisByIP in insertion
\* order, each with its key and its riskFactors (allReasons); the score,
\* level, confidence, attack type, recommendations and summary of an entry
\* are computed from allReasons and are left out.
performAdvancedThreatAnalysis(logEntries) ==
    Bind(groupKeys(logEntries, Len(logEntries)), LAMBDA keys :
        [k \in 1..Len(keys) |->
            Bind(ipLogsOf(logEntries, keys[k]), LAMBDA ipLogs :
                [ip |-> keys[k],
                 riskFactors |-> detectByPatterns(ipLogs) \o detectAnomalies(ipLogs)
                                 \o detectTemporalPatterns(ipLogs)
                                 \o detectSeverityEscalation(ipLogs)
                                 \o detectCorrelations(ipLogs)])])

\* Events of the pipeline: those of the detectors, an event without an
\* address and one with the address 0.0.0.0.
PipelineEvents ==
    DetectorEvents \cup
    { [sourceIp |-> EmptyIp, logType |-> "auth", severity |-> "warning",
       timestamp |-> 1600, message |-> FailedPasswordText, rawLog |-> FailedPasswordText],
      [sourceIp |-> ZeroIp, logType |-> "system", severity |-> "info",
       timestamp |-> 2000, message |-> NoText, rawLog |-> NoText] }

PipelineLists == UNION { [1..n -> PipelineEvents] : n \in 0..MaxSlice }

InitPipeline ==
    /\ fnIn \in { [logs |-> logEntries] : logEntries \in PipelineLists }
    /\ fnOut = Null
    /\ reputationCache = [ip \in Addrs |-> Null]
    /\ IP_REPUTATION_DB = InitialReputationDb
    /\ apiKey = FALSE
    /\ now = 0
    /\ calls = <<>>
    /\ StoreNotLoaded
    /\ lastIndex = 0

ApplyPerformAdvancedThreatAnalysis ==
    /\ fnOut = Null
    /\ fnOut' = [fn |-> "performAdvancedThreatAnalysis",
                 analysisByIP |-> performAdvancedThreatAnalysis(fnIn.logs)]
    /\ UNCHANGED <<fnIn, repVars, storeVars, lastIndex>>

NextPipeline == ApplyPerformAdvancedThreatAnalysis

SpecPipeline == InitPipeline /\ [][NextPipeline]_vars

(***************************************************************************)
(* Reputation client: properties                                           *)
(***************************************************************************)

\* C2: whatever the service does (no key, 401, 429, other status, network
\* error, malformed body), every lookup completes without an exception and
\* returns an analysis holding a reputation record for the address asked.
C2_LookupAlwaysReturnsRecord ==
    \A i \in 1..Len(calls) :
        /\ ~calls[i].threw
        /\ calls[i].analysis # Null
        /\ calls[i].analysis.ipAddress = calls[i].ipAddress
        /\ calls[i].analysis.reputation # Null
        /\ calls[i].analysis.reputation.ipAddress = calls[i].ipAddress

\* A lookup whose request raised inside the client and one that was answered
\* 429 have both completed with a locally generated record.
C2_Witness ==
    /\ Len(calls) = 2
    /\ calls[1].requests = <<"networkError">> /\ calls[1].fellBack
    /\ calls[2].requests = <<"http429">> /\ calls[2].fellBack
    /\ calls[2].analysis.reputation.ipAddress = calls[2].ipAddress

\* C3: of two consecutive lookups of one address at most the TTL apart, the
\* second sends no request to the service, whatever the first ended in.
C3_SecondLookupSendsNoRequest ==
    \A i \in 1..(Len(calls) - 1) :
        (calls[i + 1].ipAddress = calls[i].ipAddress
            /\ calls[i + 1].at - calls[i].at <= CACHE_TTL)
        => calls[i + 1].requests = <<>>

\* C4 (first half): the record a fallback generated is in the TTL cache.
FallbackRecordIsCached ==
    (Len(calls) > 0 /\ calls[Len(calls)].fellBack /\ now = calls[Len(calls)].at)
    => /\ reputationCache[calls[Len(calls)].ipAddress] # Null
       /\ reputationCache[calls[Len(calls)].ipAddress].data
            = calls[Len(calls)].analysis.reputation

\* C4 (second half): every later lookup of that address returns that record.
FallbackRecordIsStable ==
    \A i \in 1..Len(calls) : \A j \in (i + 1)..Len(calls) :
        (calls[i].fellBack /\ calls[j].ipAddress = calls[i].ipAddress)
        => calls[j].analysis.reputation = calls[i].analysis.reputation

\* C4: a record generated by the fallback is stored in the TTL cache and every
\* later lookup of the address returns it, also once the service answers again.
C4_FallbackRecordCachedAndStable ==
    FallbackRecordIsCached /\ FallbackRecordIsStable


(***************************************************************************)
(* Scoring: properties                                                     *)
(***************************************************************************)

\* The level a score gets under the thresholds high and medium.
LevelUnder(score, high, medium) ==
    IF score >= high THEN "high" ELSE IF score >= medium THEN "medium" ELSE "low"

Fused == fnOut # Null /\ fnIn.fn = "convertToThreatIntelligence"

\* C1: for every findings list and every reputation record the final score of
\* the fused threat record lies in 0..100 (0..1000 tenths).
C1_FinalScoreBounded ==
    Fused => /\ fnOut.threat.threatScore >= 0
             /\ fnOut.threat.threatScore <= 1000

\* A composite score and a boost whose sum exceeds 100, stored as 100.
C1_Witness ==
    /\ Fused
    /\ 10 * fnOut.analysis.threatScore + fnIn.reputation.reputationBoost > 1000
    /\ fnOut.threat.threatScore = 1000

\* C5: for every reputation record both copies of the boost return a value
\* within [-20, 50] (-200..500 tenths).
C5_BoostBounded ==
    (fnOut # Null /\ fnIn.fn = "calculateReputationBoost") =>
        /\ fnOut.local >= -200 /\ fnOut.local <= 500
        /\ fnOut.api >= -200 /\ fnOut.api <= 500

\* A record whose components add up to more than 50, boosted by exactly 50.
C5_Witness ==
    /\ fnOut # Null /\ fnIn.fn = "calculateReputationBoost"
    /\ calculateReputationBoost_Uncapped(fnIn.reputation, now) > 500
    /\ fnOut.local = 500
    /\ fnOut.api = 500

\* C6: pushing a finding of confidence > 0 onto a findings list never lowers
\* the composite score, also for the empty list and for a method the weight
\* table does not know.
C6_CompositeMonotonic ==
    (fnOut # Null /\ fnIn.fn = "calculateCompositeScore" /\ fnIn.extra.confidence > 0) =>
        fnOut.after.threatScore >= fnOut.before.threatScore

\* A finding of an unknown method raises the score of the empty list.
C6_Witness ==
    /\ fnOut # Null /\ fnIn.fn = "calculateCompositeScore"
    /\ fnIn.reasons = <<>>
    /\ fnIn.extra.confidence > 0
    /\ WeightOf(fnIn.extra.method) = 20
    /\ fnOut.before.threatScore = 0
    /\ fnOut.after.threatScore > 0

\* C7 as stated: every scorer, the direct ones included, maps its score to a
\* level with the thresholds 70 and 40.
C7_AllScorersUse7040 ==
    fnOut # Null =>
        /\ fnIn.fn = "calculateCompositeScore" =>
                fnOut.after.threatLevel = LevelUnder(fnOut.after.threatScore, 70, 40)
        /\ fnIn.fn = "convertToThreatIntelligence" =>
                fnOut.threat.threatLevel = LevelUnder(fnOut.threat.threatScore, 700, 400)
        /\ fnIn.fn = "calculateThreatScore" =>
                fnOut.result.threatLevel = LevelUnder(fnOut.result.score, 70, 40)
        /\ fnIn.fn = "analyzeUserLogs" =>
                fnOut.threat.threatLevel = LevelUnder(fnOut.threat.threatScore, 70, 40)

\* C7 amended: the composite scorer and the fusion step use the thresholds 70
\* and 40; the direct scorers (calculateThreatScore and analyzeUserLogs) use
\* 60 and 30.
C7_ThresholdsPerScorer ==
    fnOut # Null =>
        /\ fnIn.fn = "calculateCompositeScore" =>
                /\ fnOut.before.threatLevel = LevelUnder(fnOut.before.threatScore, 70, 40)
                /\ fnOut.after.threatLevel = LevelUnder(fnOut.after.threatScore, 70, 40)
        /\ fnIn.fn = "convertToThreatIntelligence" =>
                fnOut.threat.threatLevel = LevelUnder(fnOut.threat.threatScore, 700, 400)
        /\ fnIn.fn = "calculateThreatScore" =>
                fnOut.result.threatLevel = LevelUnder(fnOut.result.score, 60, 30)
        /\ fnIn.fn = "analyzeUserLogs" =>
                fnOut.threat.threatLevel = LevelUnder(fnOut.threat.threatScore, 60, 30)

\* A direct score between 60 and 69 is rated high.
C7_Witness ==
    /\ fnOut # Null /\ fnIn.fn = "calculateThreatScore"
    /\ fnOut.result.score >= 60 /\ fnOut.result.score < 70
    /\ fnOut.result.threatLevel = "high"

\* round(x * 0.5) for a count x: halves round up.
HalfRounded(x) == IF x % 2 = 0 THEN x \div 2 ELSE (x \div 2) + 1

\* bucket: 0 for no failed login, 10 for 1-2, 30 for 3-4, 70 for 5 or more.
Bucket(failedLogins) ==
    CASE failedLogins = 0 -> 0
      [] failedLogins \in 1..2 -> 10
      [] failedLogins \in 3..4 -> 30
      [] OTHER -> 70

Parsed == fnOut # Null /\ fnIn.fn = "parseLogs"

\* The positions of the non-blank lines no format parses, in input order.
RECURSIVE FailedPositions(_, _)
FailedPositions(lines, n) ==
    IF n = 0 THEN <<>>
    ELSE IF ~IsBlank(lines[n]) /\ parseSingleLine(lines[n]).event = Null
    THEN Append(FailedPositions(lines, n - 1), n)
    ELSE FailedPositions(lines, n - 1)

\* C8: success is exactly parsedLines > 0; a text of blank lines only gives
\* success = false and no events.
C8_SuccessIffParsed ==
    Parsed =>
        /\ fnOut.success = (fnOut.parsedLines > 0)
        /\ (\A i \in 1..Len(fnIn.lines) : IsBlank(fnIn.lines[i])) =>
                (~fnOut.success /\ fnOut.entries = <<>>)

\* A text with non-blank lines none of which parses.
C8_Witness ==
    /\ Parsed
    /\ fnOut.totalLines > 0
    /\ fnOut.parsedLines = 0
    /\ ~fnOut.success

\* C9: totalLines counts the non-blank lines, parsedLines the events, and
\* errors holds the first min(10, totalLines - parsedLines) failures in input
\* order, each with the 1-based position of its line in the text.
C9_LinesCountedOnce ==
    Parsed =>
        LET failed == FailedPositions(fnIn.lines, Len(fnIn.lines))
            kept == Min(10, fnOut.totalLines - fnOut.parsedLines)
        IN  /\ fnOut.totalLines = NonBlankCount(fnIn.lines)
            /\ fnOut.parsedLines = Len(fnOut.entries)
            /\ Len(failed) = fnOut.totalLines - fnOut.parsedLines
            /\ Len(fnOut.errors) = kept
            /\ \A i \in 1..kept : fnOut.errors[i].line = failed[i]

\* More than ten failures after a blank line and a parsed line: ten messages
\* remain, the first for the third line.
C9_Witness ==
    /\ Parsed
    /\ fnOut.totalLines - fnOut.parsedLines > 10
    /\ fnOut.parsedLines > 0
    /\ IsBlank(fnIn.lines[1])
    /\ Len(fnOut.errors) = 10
    /\ fnOut.errors[1].line = 3

\* C10: a line of trimmed length >= 10 gets the result of the first format
\* in the priority order whose structural condition holds, the JSON condition
\* being "brace-delimited and valid JSON"; a brace-delimited line that is not
\* valid JSON is handled by the later formats.
C10_ResultOfFirstMatchingFormat ==
    (fnOut # Null /\ fnIn.fn = "parseSingleLine" /\ TextLength(fnIn.line.tokens) >= 10) =>
        LET format == RouteOf_ValidJson(fnIn.line.tokens)
        IN  /\ fnOut.format = format
            /\ fnOut.event = ParseAs(format, fnIn.line.tokens)

\* A line was parsed into an event.
Emitted == fnOut # Null /\ fnIn.fn = "parseSingleLine" /\ fnOut.event # Null

\* C17: every event the parser returns has a non-empty source address:
\* an address of the line, or the sentinel 0.0.0.0.
C17_SourceAddressPopulated ==
    Emitted =>
        /\ fnOut.event.sourceIp # ""
        /\ \/ fnOut.event.sourceIp = NoAddress
           \/ fnOut.event.sourceIp = IpToken /\ Has(fnIn.line.tokens, {IpToken})

\* C19: every event the parser emits, JSON lines with any severity, level
\* or type included, has a severity among info, warning, error, critical
\* and a category among auth, system, firewall, application, network.
C19_SeverityAndCategoryInRange ==
    Emitted =>
        /\ fnOut.event.severity \in {"info", "warning", "error", "critical"}
        /\ fnOut.event.logType \in {"auth", "system", "firewall", "application", "network"}


(***************************************************************************)
(* Batch lookup: properties                                                *)
(***************************************************************************)

\* C11: within one single or batch lookup, no request for an address follows
\* a request for that address that was answered with HTTP 401.
C11_Http401NeverRetried ==
    \A c \in 1..Len(calls) :
        \A i, j \in 1..Len(calls[c].requests) :
            (i < j /\ calls[c].requests[i].kind = "http401")
                => calls[c].requests[j].ipAddress # calls[c].requests[i].ipAddress


(***************************************************************************)
(* Aggregation: properties                                                 *)
(***************************************************************************)

Analyzed == fnOut # Null /\ fnIn.fn = "analyzeUserLogs" /\ "logs" \in DOMAIN fnIn

\* Every event has a date and a non-empty address.
WellFormed(logs) ==
    \A i \in 1..Len(logs) : logs[i].timestamp # InvalidDate /\ logs[i].sourceIp # EmptyIp

\* The events of one address, by position.
EventsOf(logs, ip) == { i \in 1..Len(logs) : logs[i].sourceIp = ip }

\* How many of the positions have a message with a phrase of the family.
Matching(logs, positions, patterns) ==
    Cardinality({ i \in positions : logs[i].message \cap patterns # {} })

RecordsMatchEvents(userThreats, userLogs) ==
    /\ Len(userThreats) = Cardinality({ userLogs[i].sourceIp : i \in 1..Len(userLogs) })
    /\ \A i \in 1..Len(userLogs) : \E t \in 1..Len(userThreats) :
            userThreats[t].ipAddress = userLogs[i].sourceIp
    /\ \A t \in 1..Len(userThreats) :
            LET mine == EventsOf(userLogs, userThreats[t].ipAddress)
            IN  /\ mine # {}
                /\ userThreats[t].repeatedAccess = Cardinality(mine)
                /\ userThreats[t].failedLogins = Matching(userLogs, mine, SSH_FAILURE_PATTERNS)
                /\ userThreats[t].sqlCount = Matching(userLogs, mine, SQLI_PATTERNS)
                /\ userThreats[t].malwareCount = Matching(userLogs, mine, MALWARE_PATTERNS)
                /\ userThreats[t].ddosCount = Matching(userLogs, mine, DDOS_PATTERNS)

\* C12: after any sequence of addUserLogs, deleteUserLog and clearUserLogs,
\* the stored threat records of every owner are exactly the analysis of the
\* owner's current events: one record per distinct source address of the
\* events, counters computed from those events only, no record for an
\* address whose events are all gone.
C12_ThreatsAreAnalysisOfEvents ==
    \A o \in Owners : RecordsMatchEvents(Get(threatsByUser, o), Get(logsByUser, o))

\* The same, for owners none of whose events has a message that is not a
\* string.
ThreatsAreAnalysisOfTextEvents ==
    \A o \in Owners :
        ~analyzeUserLogsRaises(Get(logsByUser, o)) =>
            RecordsMatchEvents(Get(threatsByUser, o), Get(logsByUser, o))

\* The last step answered a request to the endpoint with a rejection.
RejectedNow == "op" \in DOMAIN fnOut /\ fnOut.op = "POST" /\ fnOut.status \in {400, 404, 415}

\* C18: when the ingestion endpoint rejects a submission (unsupported
\* content type, missing or unknown owner, empty content, no parseable
\* line), no event is appended and the stored events, threat records and
\* alerts of every owner are unchanged.
C18_RejectionLeavesStoreUnchanged ==
    [][(ops' # ops /\ RejectedNow') =>
            UNCHANGED <<logsByUser, threatsByUser, alertsByUser>>]_vars

\* A text with lines, none of them parseable, was rejected for a known
\* owner who has events, threat records and alerts.
C18_Witness ==
    /\ RejectedNow /\ fnOut.message = "Failed to parse logs"
    /\ Get(logsByUser, "demo-user-1") # <<>>
    /\ Get(threatsByUser, "demo-user-1") # <<>>
    /\ Get(alertsByUser, "demo-user-1") # <<>>

(***************************************************************************)
(* Recommendations: properties                                             *)
(***************************************************************************)

EqualIgnoringCase(a, b) == toLowerCase(a) = toLowerCase(b)

ContainsIgnoringCase(list, rec) == \E i \in 1..Len(list) : EqualIgnoringCase(list[i], rec)

\* C13, first half: the fused list contains every recommendation of the base
\* list and of the reputation-derived list, compared ignoring case.
MergeContainsBothLists ==
    fnOut # Null =>
        /\ \A i \in 1..Len(fnIn.analysis) :
                ContainsIgnoringCase(fnOut.recommendations, fnIn.analysis[i])
        /\ \A i \in 1..Len(fnIn.reputation) :
                ContainsIgnoringCase(fnOut.recommendations, fnIn.reputation[i])

NoTwoEqualIgnoringCase(list) ==
    \A i, j \in 1..Len(list) : i # j => ~ EqualIgnoringCase(list[i], list[j])

\* C13: for every base list and every reputation-derived list, the fused
\* recommendation list contains every recommendation of both lists (compared
\* ignoring case) and contains no two entries that are equal ignoring case.
C13_MergedRecommendationsDeduplicated ==
    fnOut # Null =>
        /\ MergeContainsBothLists
        /\ NoTwoEqualIgnoringCase(fnOut.recommendations)

\* What the merge does guarantee: no reputation-derived entry that is kept
\* equals a base entry ignoring case.
MergeDropsReputationEntriesOfBase ==
    fnOut # Null =>
        \A j \in (Len(fnIn.analysis) + 1)..Len(fnOut.recommendations) :
            ~ ContainsIgnoringCase(fnIn.analysis, fnOut.recommendations[j])

(***************************************************************************)
(* Detection methods: properties                                           *)
(***************************************************************************)

\* C14: for each of the five detection methods, the returned findings
\* (method, confidence, description and evidence) are identical for every
\* ordering of the same events, and the call leaves its input list
\* unchanged.
C14_FindingsIndependentOfOrder ==
    fnOut # Null =>
        /\ fnOut.findings = fnOut.reordered
        /\ fnOut.logEntries = fnIn.logs

\* The temporal, severity-escalation and correlation methods are
\* independent of the order, and no method changes its input list.
CountingMethodsIndependentOfOrder ==
    fnOut # Null =>
        /\ fnOut.fn \in {"detectTemporalPatterns", "detectSeverityEscalation",
                         "detectCorrelations"}
                => fnOut.findings = fnOut.reordered
        /\ fnOut.logEntries = fnIn.logs

\* The pattern and anomaly methods apart from the evidence: method,
\* confidence and description of every finding are independent of the order.
Unevidenced(findings) ==
    [i \in 1..Len(findings) |->
        [method |-> findings[i].method, confidence |-> findings[i].confidence,
         description |-> findings[i].description]]

FindingsApartFromEvidenceIndependentOfOrder ==
    fnOut # Null => Unevidenced(fnOut.findings) = Unevidenced(fnOut.reordered)

SshFindingEmitted ==
    \E i \in 1..Len(fnOut.findings) :
        fnOut.findings[i].method = "SSH Brute Force Pattern Detection"

SshMatches(logEntries) == SelectSeq(logEntries, LAMBDA l : Test("SSH_BRUTE_FORCE", l))

\* C20 as stated: the pattern-signature method emits the SSH brute-force
\* finding if and only if at least 3 of the events match the SSH failure
\* signature, whatever the category of those events.
C20_SshFindingIffThreeMatches ==
    (fnOut # Null /\ fnOut.fn = "detectByPatterns") =>
        (SshFindingEmitted <=> Len(SshMatches(fnIn.logs)) >= 3)

\* What the method does: it emits the SSH brute-force finding if and only if
\* at least 3 of the events of category auth match the SSH failure signature.
SshFindingIffThreeAuthMatches ==
    (fnOut # Null /\ fnOut.fn = "detectByPatterns") =>
        (SshFindingEmitted <=>
            Len(SelectSeq(SshMatches(fnIn.logs), LAMBDA l : l.logType = "auth")) >= 3)

(***************************************************************************)
(* Keyword severity: properties                                            *)
(***************************************************************************)

\* The severity of the highest-priority keyword class present, the classes
\* being critical/emergency/panic/fatal, fail*/error/denied and
\* warning/warn/blocked/suspicious.
SeverityOfClasses(message) ==
    IF Includes(message, {"critical", "emergency", "panic", "fatal"}) THEN "critical"
    ELSE IF Includes(message, {"fail", "error", "denied"}) THEN "error"
    ELSE IF Includes(message, {"warning", "warn", "blocked", "suspicious"}) THEN "warning"
    ELSE "info"

\* C21: for every message, the keyword severity is decided by the
\* highest-priority keyword class present: critical/emergency/panic/fatal
\* gives critical; otherwise fail*/error/denied gives error; otherwise
\* warning/warn/blocked/suspicious gives warning; a message containing none
\* of these keywords gets info.
C21_SeverityByKeywordClass ==
    (fnOut # Null /\ "severity" \in DOMAIN fnOut /\ "message" \in DOMAIN fnIn) =>
        fnOut.severity = SeverityOfClasses(fnIn.message)

\* Apart from messages with "invalid", "rejected" or a "fail" that is not
\* "failed", the severity is that of the classes.
SeverityByKeywordClassApartFromAuthWords ==
    (fnOut # Null /\ "severity" \in DOMAIN fnOut /\ "message" \in DOMAIN fnIn
        /\ ~ Has(fnIn.message.text, {"Invalid", "rejected", "failure"})) =>
        fnOut.severity = SeverityOfClasses(fnIn.message)

(***************************************************************************)
(* Reputation cache: properties                                            *)
(***************************************************************************)

\* The lookup that a step completes, when it completes one.
LookedUp(ip) == calls' # calls /\ calls'[Len(calls')].ipAddress = ip

ExpiredEntryLookedUp ==
    /\ Len(calls) = 2
    /\ calls[1].ipAddress = calls[2].ipAddress
    /\ calls[1].at = 0 /\ calls[1].requests = <<"ok">>
    /\ calls[2].at = 3 * TickHours /\ calls[2].requests # <<>>

(***************************************************************************)
(* Windows events: properties                                              *)
(***************************************************************************)

\* A line that is the sample Windows event, with its SystemTime and Level.
WindowsSampleParsed ==
    /\ fnOut # Null /\ "line" \in DOMAIN fnIn
    /\ fnIn.line.tokens = <<EventSample>>

\* C23: a Windows Event XML line that carries a SystemTime timestamp and a
\* Level field, such as the repository's own sample line with Level 2, is
\* parsed as a Windows event: category system and severity from the Level
\* mapping (here error).
C23_WindowsSampleParsedAsWindowsEvent ==
    WindowsSampleParsed =>
        /\ fnOut.format = "windows"
        /\ fnOut.event.logType = "system"
        /\ fnOut.event.severity = "error"

\* A Windows event line without a timestamp is parsed as a Windows event,
\* with the severity of its Level.
WindowsEventWithoutTimeParsedAsWindowsEvent ==
    (fnOut # Null /\ "line" \in DOMAIN fnIn /\ fnIn.line.tokens = <<EventLevel3>>) =>
        /\ fnOut.format = "windows"
        /\ fnOut.event = Event(NoAddress, "system", Text(<<EventLevel3>>), "warning")

(***************************************************************************)
(* Direct scorer: range                                                    *)
(***************************************************************************)

\* C24: for all integer inputs, including negative counts and negative
\* extra points, the score returned by calculateThreatScore lies within
\* [0, 100].
C24_DirectScoreWithinRange ==
    (fnOut # Null /\ fnIn.fn = "calculateThreatScore") =>
        (fnOut.result.score >= 0 /\ fnOut.result.score <= 100)

\* The score never exceeds 100, and lies within [0, 100] when no input is
\* negative.
DirectScoreCappedAbove ==
    (fnOut # Null /\ fnIn.fn = "calculateThreatScore") =>
        /\ fnOut.result.score <= 100
        /\ (fnIn.args.failedLogins >= 0 /\ fnIn.args.repeatedAccess >= 0
                /\ fnIn.args.additionalFactors >= 0) => fnOut.result.score >= 0

(***************************************************************************)
(* isValidLogContent: properties                                           *)
(***************************************************************************)

\* C25: isValidLogContent has no hidden state: for every content string it
\* returns the same boolean on every call, whatever calls to
\* isValidLogContent or parseLogs were made before it and in whatever order.
C25_ValidityHasNoHiddenState ==
    \A i, j \in 1..Len(calls) :
        (/\ "fn" \in DOMAIN calls[i] /\ "fn" \in DOMAIN calls[j]
         /\ calls[i].fn = "isValidLogContent" /\ calls[j].fn = "isValidLogContent"
         /\ calls[i].content = calls[j].content)
            => calls[i].result = calls[j].result

\* A line whose only mark of a log line is an address.
AddressOnly(line) ==
    /\ Has(line.tokens, {IpToken, EventSample})
    /\ ~ Has(line.tokens, TimeTokens)
    /\ ~ (line.indent = 0 /\ SYSLOG_PATTERN(line.tokens))

\* Contents without such a line get the same answer on every call.
ValidityStableWithoutAddressOnlyLines ==
    \A i, j \in 1..Len(calls) :
        (/\ "fn" \in DOMAIN calls[i] /\ "fn" \in DOMAIN calls[j]
         /\ calls[i].fn = "isValidLogContent" /\ calls[j].fn = "isValidLogContent"
         /\ calls[i].content = calls[j].content
         /\ \A k \in 1..Len(calls[i].content) : ~ AddressOnly(calls[i].content[k]))
            => calls[i].result = calls[j].result


(***************************************************************************)
(* Alerts of the store: properties                                         *)
(***************************************************************************)

\* The last step ran generateAlertsFromThreats for the user to its end.
AlertsGeneratedFor(userId) ==
    /\ "op" \in DOMAIN fnOut /\ "userId" \in DOMAIN fnOut /\ fnOut.userId = userId
    /\ \/ fnOut.op = "generateAlertsFromThreats"
       \/ fnOut.op = "addUserLogs" /\ ~fnOut.raised
       \/ fnOut.op = "deleteUserLog" /\ fnOut.removed /\ ~fnOut.raised

\* The user has an alert of the threat that names the attack type.
HasAlertFor(userId, threat, attackType) ==
    \E i \in DOMAIN Get(alertsByUser, userId) :
        /\ Get(alertsByUser, userId)[i].threatId = threat.id
        /\ Get(alertsByUser, userId)[i].title = attackType

\* The user has an alert of the threat.
HasAlertOf(userId, threat) ==
    \E i \in DOMAIN Get(alertsByUser, userId) :
        Get(alertsByUser, userId)[i].threatId = threat.id

\* C26: after generateAlertsFromThreats has run for a user, every pair of a
\* threat of the user and an attack type detected for it has an alert of
\* that threat and that attack type.
C26_EveryAttackTypeHasAlert ==
    \A o \in Owners :
        AlertsGeneratedFor(o) =>
            \A t \in DOMAIN Get(threatsByUser, o) :
                \A j \in DOMAIN Get(threatsByUser, o)[t].detectedAttackTypes :
                    HasAlertFor(o, Get(threatsByUser, o)[t],
                                Get(threatsByUser, o)[t].detectedAttackTypes[j])

\* The same, for the threat alone: every threat with a detected attack
\* type has an alert.
EveryThreatWithAttackTypeHasAlert ==
    \A o \in Owners :
        AlertsGeneratedFor(o) =>
            \A t \in DOMAIN Get(threatsByUser, o) :
                Get(threatsByUser, o)[t].detectedAttackTypes # <<>> =>
                    HasAlertOf(o, Get(threatsByUser, o)[t])


(***************************************************************************)
(* The full pipeline: properties                                           *)
(***************************************************************************)

\* C27: no entry of the map performAdvancedThreatAnalysis returns has the
\* finding "Distributed Attack Correlation Detection" among its risk
\* factors: the events of one entry hold fewer than 5 distinct source
\* addresses.
C27_NoDistributedCorrelationInPipeline ==
    fnOut # Null =>
        \A k \in DOMAIN fnOut.analysisByIP :
            /\ \A r \in DOMAIN fnOut.analysisByIP[k].riskFactors :
                    fnOut.analysisByIP[k].riskFactors[r].method
                        # "Distributed Attack Correlation Detection"
            /\ Cardinality({ ipLogsOf(fnIn.logs, fnOut.analysisByIP[k].ip)[i].sourceIp :
                    i \in DOMAIN ipLogsOf(fnIn.logs, fnOut.analysisByIP[k].ip) }) < 5

\* The pipeline has run on a list that the correlation method itself
\* answers with the finding, and one entry holds events of two distinct
\* source addresses, the empty one and 0.0.0.0.
C27_Witness ==
    /\ fnOut # Null
    /\ \E r \in DOMAIN detectCorrelations(fnIn.logs) :
            detectCorrelations(fnIn.logs)[r].method = "Distributed Attack Correlation Detection"
    /\ \E k \in DOMAIN fnOut.analysisByIP :
            { ipLogsOf(fnIn.logs, fnOut.analysisByIP[k].ip)[i].sourceIp :
                i \in DOMAIN ipLogsOf(fnIn.logs, fnOut.analysisByIP[k].ip) } = {EmptyIp, ZeroIp}


(***************************************************************************)
(* Threat status: properties                                               *)
(***************************************************************************)

\* The last step was an addUserLogs, or a deleteUserLog that removed an
\* event, of the user.
ReanalysedFor(userId) ==
    /\ "op" \in DOMAIN fnOut /\ "userId" \in DOMAIN fnOut /\ fnOut.userId = userId
    /\ \/ fnOut.op = "addUserLogs"
       \/ fnOut.op = "deleteUserLog" /\ fnOut.removed

AllActive(userId) ==
    \A t \in DOMAIN Get(threatsByUser, userId) :
        Get(threatsByUser, userId)[t].status = "active"

\* C28: after an addUserLogs or a successful deleteUserLog of a user, every
\* stored threat of the user has status active, whatever status
\* updateThreatStatus had set before.
C28_StatusResetByReanalysis ==
    \A o \in Owners : ReanalysedFor(o) => AllActive(o)

\* The same, for the calls whose analysis did not raise.
StatusResetByCompletedReanalysis ==
    \A o \in Owners : (ReanalysedFor(o) /\ ~fnOut.raised) => AllActive(o)


(***************************************************************************)
(* Alert status: properties                                                *)
(***************************************************************************)

\* The alerts of the user that belong to the threat and have the status.
AlertsOf(alertsMap, userId, threatId, statuses) ==
    { i \in DOMAIN Get(alertsMap, userId) :
        /\ Get(alertsMap, userId)[i].threatId = threatId
        /\ Get(alertsMap, userId)[i].status \in statuses }

AlertStatuses == {"new", "acknowledged", "resolved"}

\* A step keeps every alert of every user who signed up, in its place and
\* with its id.
AlertsKept ==
    \A o \in users :
        /\ Len(Get(alertsByUser', o)) >= Len(Get(alertsByUser, o))
        /\ \A i \in DOMAIN Get(alertsByUser, o) :
                Get(alertsByUser', o)[i].id = Get(alertsByUser, o)[i].id

\* A user who signed up has at most one new alert for a threat id.
OneNewAlertPerThreat ==
    \A o \in users :
        \A i, j \in DOMAIN Get(alertsByUser, o) :
            ( /\ Get(alertsByUser, o)[i].threatId = Get(alertsByUser, o)[j].threatId
              /\ Get(alertsByUser, o)[i].status = "new"
              /\ Get(alertsByUser, o)[j].status = "new" ) => i = j

\* The step re-analyses the events of user o, and a threat found has
\* attack types and had alerts before, none of them new: the step appends
\* a new alert for the threat.
FreshAlertWhere(completed) ==
    \A o \in users :
        (ops' # ops /\ ReanalysedFor(o)' /\ (completed => ~fnOut'.raised)) =>
            \A t \in DOMAIN Get(threatsByUser', o) :
                LET threat == Get(threatsByUser', o)[t]
                IN  ( /\ threat.detectedAttackTypes # <<>>
                      /\ AlertsOf(alertsByUser, o, threat.id, AlertStatuses) # {}
                      /\ AlertsOf(alertsByUser, o, threat.id, {"new"}) = {} )
                    => \E i \in AlertsOf(alertsByUser', o, threat.id, {"new"}) :
                            i > Len(Get(alertsByUser, o))

AlertsNeverRemoved == [][AlertsKept]_vars

FreshAlertAfterCompletedReanalysis == [][FreshAlertWhere(TRUE)]_vars

\* C29: for a user who signed up, no step removes an alert, at most one
\* alert with status new exists per threat id, and when every alert of a
\* threat that is still detected has been acknowledged or resolved, the
\* next re-analysis creates a new alert for the threat.
C29_AlertsKeptOneNewPerThreat ==
    /\ [][AlertsKept]_vars
    /\ []OneNewAlertPerThreat
    /\ [][FreshAlertWhere(FALSE)]_vars

\* The same, the new alert being promised for the re-analyses that do not
\* raise.
AlertsKeptOneNewPerThreatWhenCompleted ==
    /\ [][AlertsKept]_vars
    /\ []OneNewAlertPerThreat
    /\ [][FreshAlertWhere(TRUE)]_vars


(***************************************************************************)
(* User isolation: properties                                              *)
(***************************************************************************)

IsolatedOperations ==
    { "addUserLogs", "deleteUserLog", "clearUserLogs", "updateThreatStatus",
      "updateAlertStatus", "generateAlertsFromThreats" }

\* The step ran one of the operations for the user.
RanFor(userId) ==
    /\ ops' # ops
    /\ "op" \in DOMAIN fnOut' /\ fnOut'.op \in IsolatedOperations
    /\ fnOut'.userId = userId

\* C30: a step of addUserLogs, deleteUserLog, clearUserLogs,
\* updateThreatStatus, updateAlertStatus or generateAlertsFromThreats for
\* one user leaves the entries of every other user in the maps of events,
\* threat records and alerts as they were.
C30_OtherUsersUntouched ==
    [][\A userId \in Owners :
            RanFor(userId) =>
                \A o \in Owners \ {userId} :
                    /\ logsByUser'[o] = logsByUser[o]
                    /\ threatsByUser'[o] = threatsByUser[o]
                    /\ alertsByUser'[o] = alertsByUser[o]]_vars

\* An operation has just cleared the events of user-2, who had got events,
\* threats and alerts by the step before, while the demo user has events,
\* threat records and alerts.
C30_Witness ==
    /\ "op" \in DOMAIN fnOut /\ fnOut.op = "clearUserLogs" /\ fnOut.userId = "user-2"
    /\ Get(alertsByUser, "user-2") # <<>>
    /\ Get(logsByUser, "demo-user-1") # <<>>
    /\ Get(threatsByUser, "demo-user-1") # <<>>
    /\ Get(alertsByUser, "demo-user-1") # <<>>

====
